---- MODULE Spec2Model ----
(***************************************************************************)
(* A model of the MyUtils repository: the WidgetFactory attribute          *)
(* resolution (factory.py), the Popup registry, the ToggleButton and the   *)
(* FormField (TkUtils/Widgets.py), the FormPage submission and the         *)
(* WindowPage with its settings file and its children (TkUtils/Pages.py).  *)
(*                                                                         *)
(* Python dicts are functions whose DOMAIN is the dict's key set; Python   *)
(* objects are records of their instance attributes; a raised exception    *)
(* is recorded by its class name in the "raised" field of the operation.   *)
(***************************************************************************)
EXTENDS Integers, Sequences, FiniteSets, TLC

VARIABLES
    defaultAttrs,   \* WidgetFactory.defaultAttrs: the one class-level dict
    factories,      \* the WidgetFactory instances constructed so far, in order
    call,           \* the last builder / generalBuilder call and what it applied
    population,     \* Popup._population
    instances,      \* Popup.instances: the dict's entries in insertion order
    popups,         \* the Popup objects constructed so far, by identity 1, 2, ...
    popupOp,        \* the last Popup operation: what was called and how it ended
    fields,         \* FormPage.fields: the FormField objects, in list order
    widgetValues,   \* what the widget attached to each field returns from .get()
    submissionResults,  \* FormPage.submissionResults
    formOp,         \* the last FormPage operation: what was called and how it ended
    toggle,         \* the ToggleButton object
    popoutWidgets,  \* the widgets handed to the ToggleButton as popouts
    toggleOp,       \* the last ToggleButton operation: what was called and how it ended
    settingsFile,   \* the settings file on disk
    page,           \* the WindowPage object
    frames,         \* the background Frames created so far: whether each still exists
    movementButtons,    \* WindowPage._movementButtons: the one class-level list
    pageOp,         \* the last WindowPage operation: what was called and how it ended
    calls,          \* Callback.calls: the one class-level list
    callbacks,      \* the Callback objects constructed so far: what each was given
    threadCallbacks,    \* the ThreadCallback objects constructed directly
    callbackOp,     \* the last callback operation: what was called and how it ended
    app,            \* the CommandLineApp object
    appPc,          \* where run() stands: idle, loop, done or aborted
    appOp,          \* the last listener step: what was read and what it did
    connection,     \* DBWriter.connection
    retryOp,        \* the last call of a function wrapped by retry
    search          \* a call of binarySearch: its arguments, locals and position

factoryVars == <<defaultAttrs, factories, call>>

popupVars == <<population, instances, popups, popupOp>>

formVars == <<fields, widgetValues, submissionResults, formOp>>

toggleVars == <<toggle, popoutWidgets, toggleOp>>

pageVars == <<settingsFile, page, frames, movementButtons, pageOp>>

callbackVars == <<calls, callbacks, threadCallbacks, callbackOp>>

appVars == <<app, appPc, appOp>>

retryVars == <<connection, retryOp>>

searchVars == <<search>>

vars ==
    <<factoryVars, popupVars, formVars, toggleVars, pageVars, callbackVars, appVars,
      retryVars, searchVars>>

notFactoryVars == <<popupVars, formVars, toggleVars, pageVars, callbackVars, appVars,
      retryVars, searchVars>>

notPopupVars == <<factoryVars, formVars, toggleVars, pageVars, callbackVars, appVars,
      retryVars, searchVars>>

notFormVars == <<factoryVars, popupVars, toggleVars, pageVars, callbackVars, appVars,
      retryVars, searchVars>>

notToggleVars == <<factoryVars, popupVars, formVars, pageVars, callbackVars, appVars,
      retryVars, searchVars>>

\* what no WindowPage operation touches
notPageVars == <<factories, call, formVars, toggleVars, callbackVars, appVars,
      retryVars, searchVars>>

notCallbackVars == <<factoryVars, popupVars, formVars, toggleVars, pageVars, appVars,
      retryVars, searchVars>>

notAppVars ==
    <<factoryVars, popupVars, formVars, toggleVars, pageVars, callbackVars, retryVars,
      searchVars>>

notRetryVars ==
    <<factoryVars, popupVars, formVars, toggleVars, pageVars, callbackVars, appVars,
      searchVars>>

notSearchVars ==
    <<factoryVars, popupVars, formVars, toggleVars, pageVars, callbackVars, appVars,
      retryVars>>

(***************************************************************************)
(* Values.  Every attribute value is an opaque token; None is Python's     *)
(* None.                                                                   *)
(***************************************************************************)
None == "<None>"

\* Python truthiness of an attribute value
Truthy(v) == v \notin {None, "", "0"}

EmptyDict == [k \in {} |-> None]

\* d[k] = v on a dict
DictSet(d, k, v) == [x \in DOMAIN d \cup {k} |-> IF x = k THEN v ELSE d[x]]

\* d.update(e)
DictUpdate(d, e) == [x \in DOMAIN d \cup DOMAIN e |-> IF x \in DOMAIN e THEN e[x] ELSE d[x]]

(***************************************************************************)
(* WidgetFactory                                                           *)
(***************************************************************************)
\* the class attribute defaultAttrs as written in the class body
ClassDefaultAttrs ==
    [labelText |-> None, command |-> None, borderwidth |-> "0", master |-> None,
     fg |-> "white", bg |-> "black", text |-> None, anchor |-> None,
     relative |-> None, sticky |-> None, relheight |-> None, relwidth |-> None]

\* extraUtils.removeFromDict: a copy of original without the keys of toRemove
RemoveFromDict(original, toRemove) ==
    [k \in DOMAIN original \ toRemove |-> original[k]]

\* setToDefaults with the final loop overwriting what the caller gave
SetToDefaultsOverwriting(defaults, kwargsDict) ==
    LET given == [k \in {x \in DOMAIN kwargsDict : kwargsDict[x] # None} |-> kwargsDict[k]]
    IN  DictUpdate(given, defaults)

\* WidgetFactory.setToDefaults
SetToDefaults(defaults, kwargsDict) ==
    LET isNone == {k \in DOMAIN kwargsDict : kwargsDict[k] = None}
        given == [k \in DOMAIN kwargsDict \ isNone |-> kwargsDict[k]]
        \* for key in isNone: try arguments[key] = defaultAttrs[key] except KeyError
        fallen == DictUpdate(given, [k \in isNone \cap DOMAIN defaults |-> defaults[k]])
        \* for key, value in defaultAttrs.items(): if key not in arguments
        missing == DOMAIN defaults \ DOMAIN fallen
    IN  DictUpdate(fallen, [k \in missing |-> defaults[k]])

\* the keys _parseKeys always removes ("removing incompatible params")
IncompatibleParams == {"anchor", "sticky", "relative", "labelText", "relheight", "relwidth"}

\* WidgetFactory._parseKeys: the widget parameters and what it stores in
\* self._passedFromBuilder
ParseKeys(defaults, kwargs, ignore) ==
    LET kwargsDict == SetToDefaults(defaults, kwargs)
        toRemove == IncompatibleParams \cup ignore
    IN  [widgetParams |-> RemoveFromDict(kwargsDict, toRemove),
         passedFromBuilder |-> kwargsDict]

\* the keys generalBuilder removes to get the placement parameters
NotPlaceParams == {"labelText", "command", "borderwidth", "master", "height",
                   "width", "fg", "bg", "relative", "text"}

\* the keys generalBuilder removes to get the label's parameters
NotLabelParams == {"command", "text", "relative", "sticky"}

\* generalBuilder's placeParams: relheight and relwidth are deleted when falsy
PlaceParams(kwargsDict) ==
    LET p == RemoveFromDict(kwargsDict, NotPlaceParams)
        bad == {b \in {"relheight", "relwidth"} : ~Truthy(p[b])}
    IN  RemoveFromDict(p, bad)

\* generalBuilder's labelParams after labelText is popped
LabelParams(kwargsDict) ==
    RemoveFromDict(RemoveFromDict(kwargsDict, NotLabelParams), {"labelText"})

\* self.defaultAttrs of an instance: no instance ever assigns the attribute,
\* so the lookup resolves to the class attribute
DefaultAttrsOf(f) == defaultAttrs

NoCall ==
    [op |-> "none", kwargs |-> EmptyDict, ignore |-> {},
     defaults |-> EmptyDict, widgetParams |-> EmptyDict, labelled |-> FALSE,
     labelParams |-> EmptyDict, placed |-> FALSE, placeParams |-> EmptyDict]

(***************************************************************************)
(* Bounds and inputs of the factory operations                             *)
(***************************************************************************)
MaxFactories == 2

\* keyword defaults given to a WidgetFactory constructor
CtorKwargs ==
    {EmptyDict, [fg |-> "red"], [font |-> "Arial"]}

\* per-call overrides: every key is absent, None or set
OverrideChoices ==
    [fg : {"absent", None, "blue"}, anchor : {"absent", None, "center"},
     labelText : {"absent", None, "Name"}, zzz : {"absent", None, "z"}]

Overrides(c) == [k \in {x \in DOMAIN c : c[x] # "absent"} |-> c[k]]

IgnoreSets == {{}, {"fg"}, {"anchor"}, {"fg", "zzz"}}

Backgrounds == {"background1"}

FactoryInit ==
    /\ defaultAttrs = ClassDefaultAttrs
    /\ factories = <<>>
    /\ call = NoCall

\* WidgetFactory.__init__(name, **kwargs): every kwarg is written into
\* self.defaultAttrs, which is the class-level dict.  "own" is what the
\* instance was given: the class body's defaults overridden by its kwargs.
FactoryDefaultsAfterInit(kwargs) == DictUpdate(defaultAttrs, kwargs)

NewFactory(kwargs) ==
    /\ call.op = "none"
    /\ Len(factories) < MaxFactories
    /\ defaultAttrs' = FactoryDefaultsAfterInit(kwargs)
    /\ factories' = Append(factories, [own |-> DictUpdate(ClassDefaultAttrs, kwargs)])
    /\ UNCHANGED <<call, notFactoryVars>>

\* WindowPage.__init__ lines 89-91: factory.defaultAttrs["master"] = self._background
\* for every factory of the page
PageSetMaster(fs, background) ==
    /\ call.op = "none"
    /\ fs # {}
    /\ defaultAttrs["master"] # background
    /\ defaultAttrs' = DictSet(defaultAttrs, "master", background)
    /\ factories' = [i \in DOMAIN factories |->
                        IF i \in fs
                        THEN [own |-> DictSet(factories[i].own, "master", background)]
                        ELSE factories[i]]
    /\ UNCHANGED <<call, notFactoryVars>>

\* WidgetFactory.builder: type(*args, **self._parseKeys(kwargs, ignore))
Builder(f, kwargs, ignore) ==
    LET parsed == ParseKeys(DefaultAttrsOf(f), kwargs, ignore)
    IN  /\ call.op = "none"
        /\ call' = [op |-> "builder", kwargs |-> kwargs, ignore |-> ignore,
                    defaults |-> DefaultAttrsOf(f),
                    widgetParams |-> parsed.widgetParams,
                    labelled |-> FALSE, labelParams |-> EmptyDict,
                    placed |-> FALSE, placeParams |-> EmptyDict]
        /\ UNCHANGED <<defaultAttrs, factories, notFactoryVars>>

\* WidgetFactory.generalBuilder: builds the widget, an optional label, and
\* places both with placeParams
GeneralBuilder(f, kwargs, ignore) ==
    LET parsed == ParseKeys(DefaultAttrsOf(f), kwargs, ignore)
        kwargsDict == parsed.passedFromBuilder
        hasLabel == Truthy(kwargsDict["labelText"])
    IN  /\ call.op = "none"
        /\ call' = [op |-> "generalBuilder", kwargs |-> kwargs,
                    ignore |-> ignore, defaults |-> DefaultAttrsOf(f),
                    widgetParams |-> parsed.widgetParams,
                    labelled |-> hasLabel,
                    labelParams |-> IF hasLabel THEN LabelParams(kwargsDict) ELSE EmptyDict,
                    placed |-> TRUE, placeParams |-> PlaceParams(kwargsDict)]
        /\ UNCHANGED <<defaultAttrs, factories, notFactoryVars>>

\* builder / generalBuilder return the widget (or the label and the widget) to
\* the caller: the call is over
BuilderReturn ==
    /\ call.op # "none"
    /\ call' = NoCall
    /\ UNCHANGED <<defaultAttrs, factories, notFactoryVars>>

FactoryNext ==
    \/ \E kwargs \in CtorKwargs : NewFactory(kwargs)
    \/ \E fs \in SUBSET (DOMAIN factories), b \in Backgrounds : PageSetMaster(fs, b)
    \/ \E f \in DOMAIN factories, c \in OverrideChoices, ig \in IgnoreSets :
            Builder(f, Overrides(c), ig)
    \/ \E f \in DOMAIN factories, c \in OverrideChoices, ig \in IgnoreSets :
            GeneralBuilder(f, Overrides(c), ig)
    \/ BuilderReturn


(***************************************************************************)
(* Popup                                                                   *)
(***************************************************************************)
MaxPopups == 5

\* the titles and name arguments popups are constructed with
Titles == {"Error!"}

NameArgs == {None, "Popup Error"}

Digit(d) ==
    CASE d = 0 -> "0" [] d = 1 -> "1" [] d = 2 -> "2" [] d = 3 -> "3" [] d = 4 -> "4"
      [] d = 5 -> "5" [] d = 6 -> "6" [] d = 7 -> "7" [] d = 8 -> "8" [] d = 9 -> "9"

RECURSIVE NatToStr(_)
NatToStr(n) == IF n < 10 THEN Digit(n) ELSE NatToStr(n \div 10) \o Digit(n % 10)

\* str(n) as the f-string formats the population
IntToStr(n) == IF n < 0 THEN "-" \o NatToStr(-n) ELSE NatToStr(n)

\* f"{name}{self._population}" or f"{title}{self._population}"
PopupName(title, name, pop) ==
    IF name # None THEN name \o IntToStr(pop) ELSE title \o IntToStr(pop)

\* the registry as one value: the class attributes, the objects, and the
\* record of the running operation
RegistryState == [population |-> population, instances |-> instances,
                  popups |-> popups, log |-> <<>>, raised |-> "none",
                  overwritten |-> {}]

HasKey(inst, key) == \E i \in DOMAIN inst : inst[i].name = key

\* del Popup.instances[key]
DelKey(inst, key) == SelectSeq(inst, LAMBDA e : e.name # key)

\* Popup.instances[key] = popup: a present key keeps its place in the order
SetKey(inst, key, popup) ==
    IF HasKey(inst, key)
    THEN [i \in DOMAIN inst |-> IF inst[i].name = key THEN [name |-> key, popup |-> popup]
                                                     ELSE inst[i]]
    ELSE Append(inst, [name |-> key, popup |-> popup])

\* the population at which Popup.__init__ culls, and the number of entries culled
CullAt == 2

\* Popup.__init__ lines 61-68: cull when the population counter is 2 or more.
\* list(self.instances.keys())[i] for i in range(0, 2) raises IndexError when
\* the registry holds fewer than two entries.
Cull(r) ==
    IF r.population >= CullAt
    THEN IF Len(r.instances) < CullAt
         THEN [r EXCEPT !.raised = "IndexError"]
         ELSE [r EXCEPT !.instances = SubSeq(r.instances, CullAt + 1, Len(r.instances)),
                        !.population = r.population - CullAt,
                        !.log = Append(r.log, <<"cull", r.instances[1].popup,
                                                r.instances[2].popup>>)]
    ELSE r

\* Popup.__init__: cull, create the window, count, name and register
Construct(r, title, name, parent) ==
    LET c == Cull(r)
        id == Len(c.popups) + 1
        pop == c.population + 1
        key == PopupName(title, name, pop)
    IN  IF c.raised # "none"
        THEN c
        ELSE [c EXCEPT
                !.population = pop,
                !.popups = Append(c.popups, [name |-> key, parent |-> parent, open |-> TRUE]),
                !.overwritten = c.overwritten \cup
                    {c.instances[i].popup : i \in {j \in DOMAIN c.instances :
                                                     c.instances[j].name = key}},
                !.instances = SetKey(c.instances, key, id),
                !.log = Append(c.log, <<"register", id>>)]

\* Popup.close lines 119-126: self._window.destroy() raises on a window that
\* was destroyed before; the bare except then builds the error popup
DestroyWindow(r, p) ==
    IF r.popups[p].open
    THEN [r EXCEPT !.popups[p].open = FALSE,
                   !.population = r.population - 1,
                   !.log = Append(r.log, <<"destroy", p>>)]
    ELSE Construct([r EXCEPT !.log = Append(r.log, <<"destroy", p>>)],
                   "Popup error!", "Popup Error", 0)

\* Popup.close: unregister, close the chained parent, destroy the window.  An
\* exception leaving the parent's close leaves this close too.
RECURSIVE Close(_, _)
Close(r, p) ==
    LET unregistered == [r EXCEPT !.instances = DelKey(r.instances, r.popups[p].name),
                                  !.log = Append(r.log, <<"unregister", p>>)]
        parent == r.popups[p].parent
        afterParent == IF parent # 0 THEN Close(unregistered, parent) ELSE unregistered
    IN  IF afterParent.raised # "none"
        THEN afterParent
        ELSE DestroyWindow(afterParent, p)

PopupInit ==
    /\ population = 0
    /\ instances = <<>>
    /\ popups = <<>>
    /\ popupOp = [kind |-> "none", target |-> 0, raised |-> "none", log |-> <<>>,
                  overwritten |-> {}]

SetRegistry(r, kind, target) ==
    /\ population' = r.population
    /\ instances' = r.instances
    /\ popups' = r.popups
    /\ popupOp' = [kind |-> kind, target |-> target, raised |-> r.raised,
                   log |-> r.log, overwritten |-> r.overwritten]

\* Popup(text, title, name, textColour, parentPopup); a popup is chained to a
\* popup whose window is still there
NewPopup(title, name, parent) ==
    LET r == Construct(RegistryState, title, name, parent)
    IN  /\ Len(popups) < MaxPopups
        /\ parent # 0 => popups[parent].open
        /\ SetRegistry(r, "new", IF r.raised = "none" THEN Len(r.popups) ELSE 0)
        /\ UNCHANGED notPopupVars

\* popup.close(), from the Dismiss button, the window manager or a caller
ClosePopup(p) ==
    LET r == Close(RegistryState, p)
    IN  /\ Len(r.popups) <= MaxPopups
        /\ SetRegistry(r, "close", p)
        /\ UNCHANGED notPopupVars

PopupNext ==
    \/ \E title \in Titles, name \in NameArgs, parent \in {0} \cup DOMAIN popups :
            NewPopup(title, name, parent)
    \/ \E p \in DOMAIN popups : ClosePopup(p)

(***************************************************************************)
(* checks.py                                                               *)
(***************************************************************************)
\* minLength / maxLength left as None
NoLength == -1

\* checks.lengthCheck(value, minLength, maxLength); 0 and None are both falsy
LengthCheck(value, minLength, maxLength) ==
    LET hasMin == minLength \notin {NoLength, 0}
        hasMax == maxLength \notin {NoLength, 0}
    IN  IF ~(hasMin \/ hasMax)
        THEN [raised |-> "AssertionError", result |-> FALSE]
        ELSE [raised |-> "none",
              result |-> /\ hasMin => minLength <= Len(value)
                         /\ hasMax => Len(value) <= maxLength]

\* checks.withinCheck(value, iterable)
WithinCheck(value, iterable) == [raised |-> "none", result |-> value \in iterable]

\* checks.withoutCheck(value, iterable)
WithoutCheck(value, iterable) == [raised |-> "none", result |-> value \notin iterable]

\* checks.defaultCheck is a staticmethod object taking no arguments: calling it
\* with the value raises TypeError
DefaultCheck(value) == [raised |-> "TypeError", result |-> FALSE]

\* instance.validation(value) for the predicates attached in this model
ApplyCheck(check, value) ==
    CASE check.type = "defaultCheck" -> DefaultCheck(value)
      [] check.type = "lengthCheck" -> LengthCheck(value, check.min, check.max)
      [] check.type = "withinCheck" -> WithinCheck(value, check.within)
      [] check.type = "withoutCheck" -> WithoutCheck(value, check.within)

(***************************************************************************)
(* FormField and FormPage                                                  *)
(***************************************************************************)
MaxFields == 2

\* what a user can have typed into a field's widget
Values == {"", "ab", "abcd"}

\* the validation predicates fields are constructed with: none given (the
\* default), a length check, a membership check
Checks ==
    {[type |-> "defaultCheck", min |-> NoLength, max |-> NoLength, within |-> {}],
     [type |-> "lengthCheck", min |-> 1, max |-> 3, within |-> {}],
     [type |-> "withinCheck", min |-> NoLength, max |-> NoLength, within |-> {"ab"}]}

FieldNames == <<"first", "second", "third">>

\* FormField.__init__: the instance attributes field, validation and name
FormField(widget, validationCheck, name) ==
    [field |-> widget, validation |-> validationCheck, name |-> name,
     validationPassed |-> "unset"]

\* the attributes a FormField object answers to: its instance attributes and
\* the names bound in the class body
FormFieldAttrs == {"field", "validation", "name", "validationPassed",
                   "Validate", "get", "attachValidation"}

\* the Validate object the decorator leaves in the class: Validate.__init__
\* stores func and nothing else
ValidateObject == [func |-> "get"]

\* Validate.__call__(self, instance) -> inner():
\*     instance.validationPassed = instance.validation(self.field.get())
\*     return self.func(instance)
\* self is the Validate object; reading an attribute it does not have raises
\* AttributeError before the predicate is called
ValidateCall(self, instance, values) ==
    IF "field" \notin DOMAIN self
    THEN [raised |-> "AttributeError", value |-> None, instance |-> instance]
    ELSE LET checked == ApplyCheck(instance.validation, values[self.field])
         IN  IF checked.raised # "none"
             THEN [raised |-> checked.raised, value |-> None, instance |-> instance]
             ELSE [raised |-> "none", value |-> values[instance.field],
                   instance |-> [instance EXCEPT !.validationPassed = checked.result]]

\* the property FormField.get
FieldGet(instance, values) == ValidateCall(ValidateObject, instance, values)

\* field.value as basicSubmit reads it
FieldValue(instance, values) ==
    IF "value" \notin FormFieldAttrs
    THEN [raised |-> "AttributeError", value |-> None]
    ELSE [raised |-> "none", value |-> values[instance.field]]

RECURSIVE SubmitLoop(_, _, _, _)
\* FormPage.submit lines 462-471, from field i on: flds are the fields (with
\* their validationPassed) and output is what was collected so far
SubmitLoop(i, flds, output, values) ==
    IF i > Len(flds)
    THEN [raised |-> "none", fields |-> flds, output |-> output]
    ELSE LET got == FieldGet(flds[i], values)
             flds2 == [flds EXCEPT ![i] = got.instance]
         IN  IF got.raised # "none"
             THEN [raised |-> got.raised, fields |-> flds2, output |-> output]
             ELSE IF got.instance.validationPassed = TRUE
                  THEN SubmitLoop(i + 1, flds2,
                          [output EXCEPT !.results = Append(@, <<flds[i].name, got.value>>)],
                          values)
                  ELSE SubmitLoop(i + 1, flds2,
                          [output EXCEPT !.failed = Append(@, i)], values)

RECURSIVE BasicLoop(_, _, _, _)
\* the list comprehension of FormPage.basicSubmit, from field i on
BasicLoop(i, flds, results, values) ==
    IF i > Len(flds)
    THEN [raised |-> "none", results |-> results]
    ELSE LET got == FieldValue(flds[i], values)
         IN  IF got.raised # "none"
             THEN [raised |-> got.raised, results |-> results]
             ELSE BasicLoop(i + 1, flds, Append(results, <<flds[i].name, got.value>>), values)

\* the class attribute FormPage.submissionResults
EmptyResults == [results |-> <<>>, failed |-> <<>>]

\* a FormPage object holding its fields (self.fields = fields, the last
\* statement of its __init__) and the class-level submissionResults; every
\* widget starts empty
FormInit ==
    /\ \E n \in 0..MaxFields :
          \E checks \in [1..n -> Checks] :
              fields = [i \in 1..n |-> FormField(i, checks[i], FieldNames[i])]
    /\ widgetValues = [i \in 1..MaxFields |-> ""]
    /\ submissionResults = EmptyResults
    /\ formOp = [kind |-> "none", raised |-> "none"]

\* the user types into the widget of field i
EditField(i, v) ==
    /\ widgetValues[i] # v
    /\ widgetValues' = [widgetValues EXCEPT ![i] = v]
    /\ formOp' = [kind |-> "edit", raised |-> "none"]
    /\ UNCHANGED <<fields, submissionResults, notFormVars>>

\* FormPage.submit
Submit ==
    LET r == SubmitLoop(1, fields, EmptyResults, widgetValues)
    IN  /\ fields' = r.fields
        /\ submissionResults' = IF r.raised = "none" THEN r.output ELSE submissionResults
        /\ formOp' = [kind |-> "submit", raised |-> r.raised]
        /\ UNCHANGED <<widgetValues, notFormVars>>

\* FormPage.basicSubmit
BasicSubmit ==
    LET r == BasicLoop(1, fields, <<>>, widgetValues)
    IN  /\ submissionResults' = IF r.raised = "none"
                                THEN [results |-> r.results, failed |-> <<>>]
                                ELSE submissionResults
        /\ formOp' = [kind |-> "basicSubmit", raised |-> r.raised]
        /\ UNCHANGED <<fields, widgetValues, notFormVars>>

\* reading field i's value through the property: fields[i].get
GetField(i) ==
    LET r == FieldGet(fields[i], widgetValues)
    IN  /\ fields' = [fields EXCEPT ![i] = r.instance]
        /\ formOp' = [kind |-> "get", raised |-> r.raised, target |-> i, value |-> r.value]
        /\ UNCHANGED <<widgetValues, submissionResults, notFormVars>>

\* the keys of checks.CHECKTYPES
CheckTypes == {"lengthCheck", "withinCheck", "withoutCheck", "typeCheck",
               "isUniqueCheck", "defaultCheck"}

\* None where a predicate is expected
NoCheck == [type |-> "None", min |-> NoLength, max |-> NoLength, within |-> {}]

\* None where a list of predicates is expected, and a list of predicates
NoChecks == [given |-> FALSE, list |-> <<>>]

CheckList(s) == [given |-> TRUE, list |-> s]

\* no further arguments: empty *args and **kwargs
NoArgs == [min |-> NoLength, max |-> NoLength, within |-> {}]

\* FormField.attachValidation(checkType, *args, customCheck = customCheck)
\* storing the bare check and dropping the further arguments
AttachValidationNoArgs(instance, checkType, args, customCheck) ==
    IF customCheck = NoCheck
    THEN IF checkType \in CheckTypes
         THEN [raised |-> "none",
               instance |-> [instance EXCEPT !.validation =
                                [type |-> checkType, min |-> NoLength, max |-> NoLength,
                                 within |-> {}]]]
         ELSE [raised |-> "ValueError", instance |-> instance]
    ELSE [raised |-> "none", instance |-> [instance EXCEPT !.validation = customCheck]]

\* FormField.attachValidation(checkType, *args, customCheck = customCheck);
\* args are the further arguments, named as the check names them
AttachValidation(instance, checkType, args, customCheck) ==
    IF customCheck = NoCheck
    THEN IF checkType \in CheckTypes
         THEN [raised |-> "none",
               instance |-> [instance EXCEPT !.validation =
                                [type |-> checkType, min |-> args.min, max |-> args.max,
                                 within |-> args.within]]]
         ELSE [raised |-> "ValueError", instance |-> instance]
    ELSE [raised |-> "none", instance |-> [instance EXCEPT !.validation = customCheck]]

\* the attributes a tuple answers to, as far as this model reads them
TupleAttrs == {"count", "index"}

RECURSIVE AttachToAll(_, _, _, _)
\* [field.attachValidation("customCheck", customCheck = check) for field in fields]
\* from the k-th given field on; targets are the given fields by position in
\* the page's list
AttachToAll(k, targets, check, flds) ==
    IF k > Len(targets)
    THEN [raised |-> "none", fields |-> flds]
    ELSE LET r == AttachValidation(flds[targets[k]], "customCheck", NoArgs, check)
         IN  IF r.raised # "none"
             THEN [raised |-> r.raised, fields |-> flds]
             ELSE AttachToAll(k + 1, targets, check,
                              [flds EXCEPT ![targets[k]] = r.instance])

\* [field.attachValidation("customCheck", customCheck = checks[i])
\*     for field in enumerate(fields)]
\* field is bound to the (index, field) tuples of enumerate, and the attribute
\* attachValidation is looked up on it before checks[i] is evaluated
AttachParallel(targets, checks, flds) ==
    IF Len(targets) = 0
    THEN [raised |-> "none", fields |-> flds]
    ELSE IF "attachValidation" \notin TupleAttrs
         THEN [raised |-> "AttributeError", fields |-> flds]
         ELSE [raised |-> "NameError", fields |-> flds]

\* the predicates callers hand to massAddValidation
CustomChecks == {c \in Checks : c.type # "defaultCheck"}

\* the lists of fields of the page a caller can pass: no field twice
FieldLists ==
    {s \in UNION {[1..n -> DOMAIN fields] : n \in 0..Len(fields)} :
        \A a, b \in DOMAIN s : s[a] = s[b] => a = b}

\* FormPage.massAddValidation(fields, check, checks); check is None or a
\* predicate, checks is None or a list of predicates
MassAddValidation(targets, check, checks) ==
    LET given == check # NoCheck \/ (checks.given /\ checks.list # <<>>)
        r == IF ~given THEN [raised |-> "AssertionError", fields |-> fields]
             ELSE IF check # NoCheck THEN AttachToAll(1, targets, check, fields)
             ELSE AttachParallel(targets, checks.list, fields)
    IN  /\ fields' = r.fields
        /\ formOp' = [kind |-> "massAddValidation", raised |-> r.raised,
                      targets |-> targets, check |-> check, checks |-> checks]
        /\ UNCHANGED <<widgetValues, submissionResults, notFormVars>>

\* the calls of attachValidation without customCheck that callers make: a
\* check name of CHECKTYPES with arguments of that check, or another name
AttachCalls ==
    {[checkType |-> "lengthCheck", args |-> [NoArgs EXCEPT !.min = 3]],
     [checkType |-> "lengthCheck", args |-> [NoArgs EXCEPT !.max = 2]],
     [checkType |-> "lengthCheck", args |-> NoArgs],
     [checkType |-> "withinCheck", args |-> [NoArgs EXCEPT !.within = {"abcd"}]],
     [checkType |-> "withoutCheck", args |-> [NoArgs EXCEPT !.within = {"", "ab"}]],
     [checkType |-> "customCheck", args |-> NoArgs],
     [checkType |-> "lenCheck", args |-> [NoArgs EXCEPT !.min = 3]]}

\* fields[i].attachValidation(checkType, *args)
AttachValidationTo(i, c) ==
    LET r == AttachValidation(fields[i], c.checkType, c.args, NoCheck)
    IN  /\ fields' = [fields EXCEPT ![i] = r.instance]
        /\ formOp' = [kind |-> "attachValidation", raised |-> r.raised, target |-> i,
                      checkType |-> c.checkType, args |-> c.args]
        /\ UNCHANGED <<widgetValues, submissionResults, notFormVars>>

AttachNext == \E i \in DOMAIN fields, c \in AttachCalls : AttachValidationTo(i, c)

FormNext ==
    \/ \E i \in DOMAIN fields, v \in Values : EditField(i, v)
    \/ Submit
    \/ BasicSubmit
    \/ \E i \in DOMAIN fields : GetField(i)
    \/ \E targets \in FieldLists, check \in CustomChecks \cup {NoCheck} :
          \E checks \in {NoChecks} \cup {CheckList(s) : s \in [1..Len(targets) -> CustomChecks]} :
              MassAddValidation(targets, check, checks)

(***************************************************************************)
(* ToggleButton                                                            *)
(***************************************************************************)
MaxPopouts == 2

MaxClicks == 3

\* place_info() of the widgets callers hand over as popouts, in Tk's strings:
\* placed relatively, placed absolutely, placed with both kinds of
\* coordinates, placed at the origin
PlaceInfos ==
    {[relx |-> "0.5", rely |-> "0", x |-> "0", y |-> "0", anchor |-> "nw"],
     [relx |-> "0", rely |-> "0", x |-> "10", y |-> "20", anchor |-> "center"],
     [relx |-> "0.5", rely |-> "0.5", x |-> "5", y |-> "0", anchor |-> "nw"],
     [relx |-> "0", rely |-> "0", x |-> "0", y |-> "0", anchor |-> "center"]}

\* float(s) == 0 / int(s) == 0 for one of Tk's numerals
IsZero(s) == s \in {"0", "0.0"}

\* a widget the placer does not manage
Forgotten ==
    [placed |-> FALSE, relx |-> "0", rely |-> "0", x |-> "0", y |-> "0", anchor |-> "nw"]

\* widget.place(**options): the options given are set; a widget the placer
\* did not manage starts from the placer's defaults
Place(placement, options) ==
    [k \in DOMAIN placement |->
        IF k = "placed" THEN TRUE
        ELSE IF k \in DOMAIN options THEN options[k]
        ELSE IF placement.placed THEN placement[k] ELSE Forgotten[k]]

\* widget.place_forget()
PlaceForget(placement) == Forgotten

\* the commands a caller passes: one that returns and one that raises
Commands == {"succeeds", "fails"}

\* the classes `except Exception` catches, of those raised in this model
ExceptionSubclasses == {"ValueError", "TclError", "AttributeError", "TypeError"}

\* the entry ToggleButton.__init__ appends to self.popouts for one popout
Capture(info) ==
    IF (~IsZero(info.relx) \/ ~IsZero(info.rely)) /\ (IsZero(info.x) /\ IsZero(info.y))
    THEN [coords |-> <<info.relx, info.rely>>, relative |-> TRUE, anchor |-> info.anchor]
    ELSE [coords |-> <<info.x, info.y>>, relative |-> FALSE, anchor |-> info.anchor]

\* no ToggleButton constructed
NoToggle == [constructed |-> FALSE]

\* ToggleButton.__init__: the object it leaves; infos are the place_info() of
\* the popouts
ToggleButtonInit(command, fgColours, infos, showErrors) ==
    [constructed |-> TRUE,
     state |-> FALSE,
     showErrors |-> showErrors,
     commands |-> <<"stateChange">>
                    \o (IF command # None THEN <<command>> ELSE <<>>)
                    \o <<"popOutTextBox">>,
     relief |-> "raised",
     colours |-> fgColours,
     fg |-> fgColours[1],
     popouts |-> [k \in DOMAIN infos |-> Capture(infos[k])]]

\* ToggleButton.stateChange
StateChange(self) ==
    LET flipped == ~self.state
    IN  [self EXCEPT !.state = flipped,
                     !.relief = IF flipped THEN "sunken" ELSE "raised",
                     !.fg = self.colours[IF flipped THEN 2 ELSE 1]]

\* ToggleButton.popOutTextBox with every popout placed by its absolute options
PopOutTextBoxAbsolute(self, widgets) ==
    [k \in DOMAIN widgets |->
        IF self.state
        THEN LET p == self.popouts[k]
             IN  [widgets[k] EXCEPT !.placement =
                     Place(@, [x |-> p.coords[1], y |-> p.coords[2], anchor |-> p.anchor])]
        ELSE [widgets[k] EXCEPT !.placement = PlaceForget(@)]]

\* ToggleButton.popOutTextBox
PopOutTextBox(self, widgets) ==
    [k \in DOMAIN widgets |->
        IF self.state
        THEN LET p == self.popouts[k]
             IN  [widgets[k] EXCEPT !.placement =
                     IF p.relative
                     THEN Place(@, [relx |-> p.coords[1], rely |-> p.coords[2],
                                    anchor |-> p.anchor])
                     ELSE Place(@, [x |-> p.coords[1], y |-> p.coords[2],
                                    anchor |-> p.anchor])]
        ELSE [widgets[k] EXCEPT !.placement = PlaceForget(@)]]

\* command(): one entry of self.commands called
RunCommand(command, self, widgets) ==
    CASE command = "stateChange" ->
            [raised |-> "none", self |-> StateChange(self), widgets |-> widgets]
      [] command = "popOutTextBox" ->
            [raised |-> "none", self |-> self, widgets |-> PopOutTextBox(self, widgets)]
      [] command = "succeeds" ->
            [raised |-> "none", self |-> self, widgets |-> widgets]
      [] command = "fails" ->
            [raised |-> "ValueError", self |-> self, widgets |-> widgets]

RECURSIVE CallCommandsAborting(_, _, _, _, _)
\* callCommands leaving its loop at the first command that raises
CallCommandsAborting(k, self, widgets, log, printed) ==
    IF k > Len(self.commands)
    THEN [raised |-> "none", self |-> self, widgets |-> widgets, log |-> log,
          printed |-> printed]
    ELSE LET r == RunCommand(self.commands[k], self, widgets)
             log2 == Append(log, [command |-> self.commands[k], raised |-> r.raised])
         IN  IF r.raised = "none"
             THEN CallCommandsAborting(k + 1, r.self, r.widgets, log2, printed)
             ELSE [raised |-> "none", self |-> r.self, widgets |-> r.widgets,
                   log |-> log2, printed |-> printed]

RECURSIVE CallCommandsFrom(_, _, _, _, _)
\* the loop of ToggleButton.callCommands from the k-th command on; log is what
\* was called so far and printed the tracebacks print_exc wrote
CallCommandsFrom(k, self, widgets, log, printed) ==
    IF k > Len(self.commands)
    THEN [raised |-> "none", self |-> self, widgets |-> widgets, log |-> log,
          printed |-> printed]
    ELSE LET r == RunCommand(self.commands[k], self, widgets)
             log2 == Append(log, [command |-> self.commands[k], raised |-> r.raised])
         IN  IF r.raised = "none"
             THEN CallCommandsFrom(k + 1, r.self, r.widgets, log2, printed)
             ELSE IF r.raised \in ExceptionSubclasses
                  THEN CallCommandsFrom(k + 1, r.self, r.widgets, log2,
                          IF self.showErrors THEN Append(printed, r.raised) ELSE printed)
                  ELSE [raised |-> r.raised, self |-> r.self, widgets |-> r.widgets,
                        log |-> log2, printed |-> printed]

\* no ToggleButton in use
ToggleIdle ==
    /\ toggle = NoToggle
    /\ popoutWidgets = <<>>
    /\ toggleOp = [kind |-> "none", raised |-> "none", clicks |-> 0,
                   log |-> <<>>, printed |-> <<>>]

\* ToggleButton(factory, coords, command, popouts = ..., showErrors = ...):
\* every popout is forgotten by the placer once its placement is captured
NewToggleButton(command, infos, showErrors) ==
    /\ ~toggle.constructed
    /\ toggle' = ToggleButtonInit(command, <<"red", "green">>, infos, showErrors)
    /\ popoutWidgets' = [k \in DOMAIN infos |->
                            [info |-> infos[k], exists |-> TRUE,
                             placement |-> PlaceForget(Place(Forgotten, infos[k]))]]
    /\ toggleOp' = [kind |-> "new", raised |-> "none", clicks |-> 0,
                    log |-> <<>>, printed |-> <<>>]
    /\ UNCHANGED notToggleVars

\* ToggleButton.callCommands, the command of the button: one click
CallCommands ==
    /\ toggle.constructed
    /\ toggleOp.clicks < MaxClicks
    /\ LET r == CallCommandsFrom(1, toggle, popoutWidgets, <<>>, <<>>)
       IN  /\ toggle' = r.self
           /\ popoutWidgets' = r.widgets
           /\ toggleOp' = [kind |-> "callCommands", raised |-> r.raised,
                           clicks |-> toggleOp.clicks + 1, log |-> r.log,
                           printed |-> r.printed]
    /\ UNCHANGED notToggleVars

ToggleNext ==
    \/ \E command \in Commands \cup {None}, showErrors \in BOOLEAN :
          \E infos \in UNION {[1..n -> PlaceInfos] : n \in 0..MaxPopouts} :
              NewToggleButton(command, infos, showErrors)
    \/ CallCommands

(***************************************************************************)
(* The settings file                                                       *)
(***************************************************************************)
\* The file is what load() finds at its start: junk that makes load fail
\* before it consumed a byte ("unread": text, zeros), junk that makes load
\* fail after it consumed bytes ("read": a truncated pickle), or a pickled
\* record; whatever follows the first pickle is never read.
MissingFile == [exists |-> FALSE, junk |-> "none", pickled |-> FALSE, record |-> EmptyDict]

EmptyFile == [exists |-> TRUE, junk |-> "none", pickled |-> FALSE, record |-> EmptyDict]

JunkFile(kind) == [exists |-> TRUE, junk |-> kind, pickled |-> FALSE, record |-> EmptyDict]

PickledFile(record) == [exists |-> TRUE, junk |-> "none", pickled |-> TRUE, record |-> record]

\* pickle.load(f) with f at the start of the file
Load(file) ==
    IF file.junk # "none" THEN [raised |-> "UnpicklingError", value |-> EmptyDict]
    ELSE IF ~file.pickled THEN [raised |-> "EOFError", value |-> EmptyDict]
    ELSE [raised |-> "none", value |-> file.record]

\* f.seek(0); dump(record, f)
DumpAtStart(file, record) == PickledFile(record)

\* dump(record, f) where a failed load left the file position: behind the
\* bytes the load consumed
DumpAfterFailedLoad(file, record) ==
    IF file.junk = "read" THEN file ELSE PickledFile(record)

\* factory.writable(value): not a Widget
Writable(value) == \A i \in DOMAIN frames : value # "background" \o NatToStr(i)

\* WidgetFactory.makeWritable of the factory called name
MakeWritable(name) ==
    LET attrs == DefaultAttrsOf(name)
        kept == {k \in DOMAIN attrs : Writable(attrs[k])}
    IN  [k \in kept \cup {"name"} |-> IF k = "name" THEN name ELSE attrs[k]]

\* updateSettings appending its record to the file instead of overwriting it
UpdateSettingsAppending(file, toInsert) ==
    IF ~file.exists THEN [raised |-> "FileNotFoundError", file |-> file]
    ELSE LET loaded == Load(file)
         IN  IF loaded.raised # "none"
             THEN [raised |-> loaded.raised, file |-> file]
             ELSE [raised |-> "none", file |-> file]

\* WindowPage.updateSettings(toInsert)
UpdateSettings(file, toInsert) ==
    IF ~file.exists THEN [raised |-> "FileNotFoundError", file |-> file]
    ELSE LET loaded == Load(file)
         IN  IF loaded.raised # "none"
             THEN [raised |-> loaded.raised, file |-> file]
             ELSE [raised |-> "none",
                   file |-> DumpAtStart(file, DictUpdate(loaded.value, toInsert))]

\* WindowPage._validateSettings(settingsFile) for a page with the given
\* factories dict (its keys in insertion order)
ValidateSettings(file, factoryKeys) ==
    LET defaults == [k \in {"theme"} |-> MakeWritable(factoryKeys[1])]
    IN  IF ~file.exists THEN [raised |-> "FileNotFoundError", file |-> file]
        ELSE LET first == Load(file)
                 file1 == IF first.raised \in {"UnpicklingError", "EOFError"}
                          THEN DumpAfterFailedLoad(file, [temp |-> "temp"])
                          ELSE file
                 second == Load(file1)
             IN  IF second.raised # "none"
                 THEN [raised |-> second.raised, file |-> file1]
                 ELSE LET toWrite == [k \in DOMAIN defaults \ DOMAIN second.value |->
                                         defaults[k]]
                      IN  UpdateSettings(file1, toWrite)

(***************************************************************************)
(* WindowPage and WindowChild                                              *)
(***************************************************************************)
MaxChildren == 6

MaxPageCalls == 3

\* relative coordinates are counted in hundredths: 1.0 is Scale
Scale == 100

\* moveButtonSpacing: the default (0.2, 0.1), and (0.5, 0.25)
Spacings == {<<20, 10>>, <<50, 25>>}

DefaultSpacing == <<20, 10>>

\* the lists of factories a page is constructed with, each factory by its
\* name; the empty list stands for factories = None as well
FactoryLists == {<<>>, <<"light">>, <<"dark">>, <<"light", "dark">>, <<"dark", "light">>}

\* the keys changeTheme is called with
ThemeKeys == {"light", "dark", "gone"}

\* the theme record a previous run left in the file
StoredTheme(name) == [fg |-> "white", bg |-> "black", name |-> name]

\* what the settings file holds when the program starts
SettingsFiles ==
    {MissingFile, EmptyFile, JunkFile("unread"), JunkFile("read"),
     PickledFile([volume |-> "3"]),
     PickledFile([volume |-> "3", theme |-> StoredTheme("dark")]),
     PickledFile([volume |-> "3", theme |-> StoredTheme("gone")])}

\* the pages movePage is asked to draw: one whose constructor draws it and
\* one whose constructor raises
Targets == {"drawn", "broken"}

\* the name of the i-th child
ChildName(i) == "page" \o NatToStr(i)

NoPage == [constructed |-> FALSE]

\* self.currentTheme: self.factories[self._themeKey]
CurrentTheme(self) ==
    IF \E i \in DOMAIN self.factories : self.factories[i] = self.themeKey
    THEN [raised |-> "none", factory |-> self.themeKey]
    ELSE [raised |-> "KeyError", factory |-> None]

\* the master generalBuilder builds on, defaultAttrs["master"], still exists
MasterExists(attrs, frms) ==
    \/ attrs["master"] = None
    \/ \E i \in DOMAIN frms : attrs["master"] = "background" \o NatToStr(i) /\ frms[i]

RECURSIVE PlaceButtonsLate(_, _, _, _, _, _, _)
\* the loop of placeMovePageButtons wrapping only once x is beyond 1
PlaceButtonsLate(k, x, y, self, attrs, frms, buttons) ==
    IF k > Len(self.children)
    THEN [raised |-> "none", buttons |-> buttons]
    ELSE LET wrap == x > Scale
             x1 == IF wrap THEN 0 ELSE x
             y1 == IF wrap THEN y + self.spacing[2] ELSE y
         IN  IF CurrentTheme(self).raised # "none"
             THEN [raised |-> CurrentTheme(self).raised, buttons |-> buttons]
             ELSE IF ~MasterExists(attrs, frms)
             THEN [raised |-> "TclError", buttons |-> buttons]
             ELSE PlaceButtonsLate(k + 1, x1 + self.spacing[1], y1, self, attrs, frms,
                     Append(buttons, [text |-> self.children[k], relx |-> x1, rely |-> y1,
                                      master |-> attrs["master"], placed |-> TRUE]))

RECURSIVE PlaceButtonsFrom(_, _, _, _, _, _, _)
\* the loop of WindowPage.placeMovePageButtons from the k-th child on, with
\* x and y as the loop holds them; attrs are the defaultAttrs the builder
\* reads, buttons is the class-level list
PlaceButtonsFrom(k, x, y, self, attrs, frms, buttons) ==
    IF k > Len(self.children)
    THEN [raised |-> "none", buttons |-> buttons]
    ELSE LET wrap == x >= Scale
             x1 == IF wrap THEN 0 ELSE x
             y1 == IF wrap THEN y + self.spacing[2] ELSE y
         IN  IF CurrentTheme(self).raised # "none"
             THEN [raised |-> CurrentTheme(self).raised, buttons |-> buttons]
             ELSE IF ~MasterExists(attrs, frms)
             THEN [raised |-> "TclError", buttons |-> buttons]
             ELSE PlaceButtonsFrom(k + 1, x1 + self.spacing[1], y1, self, attrs, frms,
                     Append(buttons, [text |-> self.children[k], relx |-> x1, rely |-> y1,
                                      master |-> attrs["master"], placed |-> TRUE]))

\* WindowPage.placeMovePageButtons
PlaceMovePageButtons(self, attrs, frms, buttons) ==
    PlaceButtonsFrom(1, 0, 0, self, attrs, frms, buttons)

\* WindowPage.createBackground: a new Frame on the page's window
CreateBackground(self, frms) ==
    IF CurrentTheme(self).raised # "none"
    THEN [raised |-> CurrentTheme(self).raised, self |-> self, frames |-> frms]
    ELSE [raised |-> "none", self |-> [self EXCEPT !.background = Len(frms) + 1],
          frames |-> Append(frms, TRUE)]

\* WindowPage.clearPage
ClearPage(self, frms, buttons) ==
    LET destroyed == [frms EXCEPT ![self.background] = FALSE]
        blank == [self EXCEPT !.visible = "blank"]
        made == CreateBackground(blank, destroyed)
    IN  IF made.raised # "none"
        THEN [raised |-> made.raised, self |-> blank, frames |-> destroyed,
              buttons |-> buttons]
        ELSE LET placed == PlaceMovePageButtons(made.self, defaultAttrs, made.frames,
                                                     buttons)
             IN  [raised |-> placed.raised, self |-> made.self, frames |-> made.frames,
                  buttons |-> placed.buttons]

\* the try block of WindowPage.movePage
MovePageTry(self, frms, buttons) ==
    LET cleared == ClearPage(self, frms, buttons)
    IN  IF cleared.raised # "none"
        THEN cleared
        ELSE LET placed == PlaceMovePageButtons(cleared.self, defaultAttrs, cleared.frames,
                                                cleared.buttons)
             IN  [cleared EXCEPT !.raised = placed.raised, !.buttons = placed.buttons]

\* WindowPage.clearWidgets(widgets): place_forget on each widget; a widget
\* whose master was destroyed is destroyed with it
ClearWidgets(widgets, frms) ==
    IF \E k \in DOMAIN widgets :
          \E i \in DOMAIN frms : widgets[k].master = "background" \o NatToStr(i) /\ ~frms[i]
    THEN [raised |-> "TclError", widgets |-> widgets]
    ELSE [raised |-> "none", widgets |-> [k \in DOMAIN widgets |->
                                            [widgets[k] EXCEPT !.placed = FALSE]]]

\* the number of arguments isinstance needs
IsInstanceArity == 2

\* WindowPage.addChild(child): the type check is isinstance(WindowChild)
AddChild(self, child, frms, buttons) ==
    IF IsInstanceArity # 1
    THEN [raised |-> "TypeError", self |-> self, buttons |-> buttons]
    ELSE LET appended == [self EXCEPT !.children = Append(@, child)]
             cleared == ClearWidgets(buttons, frms)
         IN  IF cleared.raised # "none"
             THEN [raised |-> cleared.raised, self |-> appended, buttons |-> buttons]
             ELSE LET placed == PlaceMovePageButtons(appended, defaultAttrs, frms,
                                                          cleared.widgets)
                  IN  [raised |-> placed.raised, self |-> appended,
                       buttons |-> placed.buttons]

\* the methods of WindowPage that removeChild calls
PageMethods == {"clearWidgets", "placeMovePageButtons"}

\* the first index of target in a list, 0 when it is not there
IndexOf(list, target) ==
    IF \E i \in DOMAIN list : list[i] = target
    THEN CHOOSE i \in DOMAIN list :
            list[i] = target /\ \A j \in 1..(i - 1) : list[j] # target
    ELSE 0

\* del list[i]
DelIndex(list, i) == [j \in 1..(Len(list) - 1) |-> IF j < i THEN list[j] ELSE list[j + 1]]

\* WindowPage.removeChild(target)
RemoveChildOf(self, target, frms, buttons) ==
    LET i == IndexOf(self.children, target)
    IN  IF i = 0
        THEN [raised |-> "ValueError", self |-> self, buttons |-> buttons]
        ELSE LET removed == [self EXCEPT !.children = DelIndex(@, i)]
                 cleared == ClearWidgets(buttons, frms)
             IN  IF cleared.raised # "none"
                 THEN [raised |-> cleared.raised, self |-> removed, buttons |-> buttons]
                 ELSE IF "placeMovementButtons" \notin PageMethods
                 THEN [raised |-> "AttributeError", self |-> removed,
                       buttons |-> cleared.widgets]
                 ELSE LET placed == PlaceMovePageButtons(removed, defaultAttrs, frms,
                                                              cleared.widgets)
                      IN  [raised |-> placed.raised, self |-> removed,
                           buttons |-> placed.buttons]

\* the record of a WindowPage operation
PageOp(kind, raised, arg, validated, count) ==
    [kind |-> kind, raised |-> raised, arg |-> arg, validated |-> validated,
     calls |-> count]

\* no WindowPage constructed; the settings file is not there
PageIdle ==
    /\ settingsFile = MissingFile
    /\ page = NoPage
    /\ frames = <<>>
    /\ movementButtons = <<>>
    /\ pageOp = PageOp("none", "none", None, "notCalled", 0)

\* no WindowPage constructed; the settings file is what an earlier run or
\* the user left
PageInit ==
    /\ settingsFile \in SettingsFiles
    /\ page = NoPage
    /\ frames = <<>>
    /\ movementButtons = <<>>
    /\ pageOp = PageOp("none", "none", None, "notCalled", 0)

\* WindowPage.__init__ lines 78-80: load(f) and settings["theme"]["name"]
ReadThemeKey(file) ==
    LET loaded == Load(file)
    IN  IF loaded.raised # "none" THEN [raised |-> loaded.raised, key |-> None]
        ELSE IF "theme" \notin DOMAIN loaded.value
        THEN [raised |-> "KeyError", key |-> None]
        ELSE IF "name" \notin DOMAIN loaded.value["theme"]
        THEN [raised |-> "KeyError", key |-> None]
        ELSE [raised |-> "none", key |-> loaded.value["theme"]["name"]]

\* Popup(text, title) built by a page operation
ShowPopup(title) ==
    LET r == Construct(RegistryState, title, None, 0)
    IN  SetRegistry(r, "new", IF r.raised = "none" THEN Len(r.popups) ELSE 0)

\* WindowPage(factories, children, settingsFile, moveButtonSpacing = spacing)
\* with n children; an exception leaves no page object
NewWindowPage(factoryNames, n, spacing) ==
    /\ ~page.constructed
    /\ UNCHANGED <<popupVars, notPageVars>>
    /\ IF factoryNames = <<>>
       THEN \* {"default" : WidgetFactory()} is iterated by its keys
            /\ pageOp' = PageOp("new", "AttributeError", None, "notCalled", 0)
            /\ UNCHANGED <<settingsFile, page, frames, movementButtons, defaultAttrs>>
       ELSE LET v == ValidateSettings(settingsFile, factoryNames)
                self == [constructed |-> TRUE, factories |-> factoryNames,
                         themeKey |-> ReadThemeKey(v.file).key,
                         children |-> [i \in 1..n |-> ChildName(i)],
                         background |-> 0, spacing |-> spacing, visible |-> "blank"]
            IN  /\ settingsFile' = v.file
                /\ IF v.raised # "none"
                   THEN /\ pageOp' = PageOp("new", v.raised, None, v.raised, 0)
                        /\ UNCHANGED <<page, frames, movementButtons, defaultAttrs>>
                   ELSE LET read == ReadThemeKey(v.file)
                            made == IF read.raised # "none"
                                    THEN [raised |-> read.raised]
                                    ELSE CreateBackground(self, frames)
                        IN  IF made.raised # "none"
                            THEN /\ pageOp' = PageOp("new", made.raised, None, "none", 0)
                                 /\ UNCHANGED <<page, frames, movementButtons, defaultAttrs>>
                            ELSE LET master == "background" \o NatToStr(made.self.background)
                                     attrs == DictSet(defaultAttrs, "master", master)
                                     placed == PlaceMovePageButtons(made.self, attrs, made.frames,
                                                                    movementButtons)
                                 IN  /\ defaultAttrs' = attrs
                                     /\ frames' = made.frames
                                     /\ movementButtons' = placed.buttons
                                     /\ page' = IF placed.raised = "none" THEN made.self
                                                ELSE page
                                     /\ pageOp' = PageOp("new", placed.raised, None, "none", 0)

\* WindowPage.changeTheme(key, silencePopup)
ChangeTheme(key, silencePopup) ==
    /\ page.constructed
    /\ pageOp.calls < MaxPageCalls
    /\ page' = [page EXCEPT !.themeKey = key]
    /\ UNCHANGED <<frames, movementButtons, defaultAttrs, notPageVars>>
    /\ LET theme == CurrentTheme(page')
           u == UpdateSettings(settingsFile, [k \in {"theme"} |-> MakeWritable(theme.factory)])
           raised == IF theme.raised # "none" THEN theme.raised ELSE u.raised
       IN  /\ settingsFile' = IF raised = "none" THEN u.file ELSE settingsFile
           /\ IF raised = "none" /\ ~silencePopup
              THEN /\ ShowPopup("Theme Switched!")
                   /\ pageOp' = PageOp("changeTheme", popupOp'.raised, key, "notCalled",
                                       pageOp.calls + 1)
              ELSE /\ UNCHANGED popupVars
                   /\ pageOp' = PageOp("changeTheme", raised, key, "notCalled",
                                       pageOp.calls + 1)

\* WindowPage.movePage(target)
MovePage(target) ==
    /\ page.constructed
    /\ pageOp.calls < MaxPageCalls
    /\ UNCHANGED <<settingsFile, defaultAttrs, notPageVars>>
    /\ LET tried == MovePageTry(page, frames, movementButtons)
       IN  /\ frames' = tried.frames
           /\ movementButtons' = tried.buttons
           /\ IF tried.raised # "none"
              THEN ShowPopup("Move Page Error!")
              ELSE UNCHANGED popupVars
           /\ IF tried.raised # "none" /\ popupOp'.raised # "none"
              THEN /\ page' = tried.self
                   /\ pageOp' = PageOp("movePage", popupOp'.raised, target, "notCalled",
                                       pageOp.calls + 1)
              ELSE IF target = "broken"
              THEN /\ page' = tried.self
                   /\ pageOp' = PageOp("movePage", "RuntimeError", target, "notCalled",
                                       pageOp.calls + 1)
              ELSE /\ page' = [tried.self EXCEPT !.visible = target]
                   /\ pageOp' = PageOp("movePage", "none", target, "notCalled",
                                       pageOp.calls + 1)

\* WindowChild(parent, name) with the page as parent
NewWindowChild(name) ==
    /\ page.constructed
    /\ pageOp.calls < MaxPageCalls
    /\ LET added == AddChild(page, name, frames, movementButtons)
       IN  /\ page' = added.self
           /\ movementButtons' = added.buttons
           /\ pageOp' = PageOp("newChild", added.raised, name, "notCalled",
                               pageOp.calls + 1)
    /\ UNCHANGED <<settingsFile, frames, defaultAttrs, popupVars, notPageVars>>

\* WindowPage.removeChild(target)
RemoveChild(target) ==
    /\ page.constructed
    /\ pageOp.calls < MaxPageCalls
    /\ LET removed == RemoveChildOf(page, target, frames, movementButtons)
       IN  /\ page' = removed.self
           /\ movementButtons' = removed.buttons
           /\ pageOp' = PageOp("removeChild", removed.raised, target, "notCalled",
                               pageOp.calls + 1)
    /\ UNCHANGED <<settingsFile, frames, defaultAttrs, popupVars, notPageVars>>

\* a page with its themes and its settings file
SettingsNext ==
    \/ \E factoryNames \in FactoryLists, n \in 0..1 :
          NewWindowPage(factoryNames, n, DefaultSpacing)
    \/ \E key \in ThemeKeys, silencePopup \in BOOLEAN : ChangeTheme(key, silencePopup)

\* a page with its children
NavigationNext ==
    \/ \E n \in 0..MaxChildren, spacing \in Spacings :
          NewWindowPage(<<"light", "dark">>, n, spacing)
    \/ \E key \in {"dark", "gone"} : ChangeTheme(key, TRUE)
    \/ \E target \in Targets : MovePage(target)
    \/ NewWindowChild("extra")
    \/ \E i \in 1..(MaxChildren + 1) : RemoveChild(ChildName(i))

(***************************************************************************)
(* callbacks.py                                                            *)
(***************************************************************************)
MaxCallbacks == 2

\* the functions callers wrap: two plain functions and a coroutine function
Funcs == {"f", "g", "co"}

\* inspect.iscoroutinefunction(func)
IsCoroutineFunction(func) == func = "co"

\* the entries of a funcs collection: (func, flag) pairs, a 1-tuple (func,)
\* and a bare function
Pair(func, flag) == [shape |-> "pair", func |-> func, flag |-> flag]

FuncEntries ==
    {Pair("f", FALSE), Pair("g", FALSE), Pair("f", TRUE), Pair("co", FALSE),
     [shape |-> "single", func |-> "g", flag |-> FALSE],
     [shape |-> "bare", func |-> "f", flag |-> FALSE]}

MaxFuncs == 2

FuncLists == UNION {[1..n -> FuncEntries] : n \in 0..MaxFuncs}

\* pair[1] on an entry: IndexError on a 1-tuple, TypeError on a function
Subscript1(entry) ==
    CASE entry.shape = "pair" -> "none"
      [] entry.shape = "single" -> "IndexError"
      [] entry.shape = "bare" -> "TypeError"

\* the instance attributes BaseCallback.__init__ assigns
BaseCallbackAttrs == {"_args", "_kwargs", "_func", "_name"}

\* BaseCallback(func, args = args, kwargs = kwargs)
BaseCallback(func, args, kwargs) ==
    [class |-> "BaseCallback", func |-> func, args |-> args, kwargs |-> kwargs,
     attrs |-> BaseCallbackAttrs]

\* ThreadCallback(func, daemon, *args, **kwargs): its __init__ calls
\* super().__init__(self, func, args = args, kwargs = kwargs), so that
\* BaseCallback.__init__ receives the object itself as func and func as
\* docString; then self._daemon is assigned
ThreadCallback(func, daemon, args, kwargs) ==
    [class |-> "ThreadCallback", func |-> "self", args |-> args, kwargs |-> kwargs,
     attrs |-> BaseCallbackAttrs \cup {"_daemon", "__doc__"}]

\* the keyword arguments a ThreadCallback built by Callback.__init__ holds:
\* args = args and kwargs = kwargs are collected into **kwargs
PackedKwargs(args, kwargs) == <<"args", args, "kwargs", kwargs>>

\* the thread a call runs on
CallerThread == "caller"

\* call() on one entry of the list; the result of a function is named by the
\* function and its arguments
CallEntry(entry) ==
    IF entry.class = "BaseCallback"
    THEN [raised |-> "none", result |-> <<entry.func, entry.args>>,
          ran |-> <<[func |-> entry.func, args |-> entry.args, thread |-> CallerThread]>>]
    ELSE IF entry.class = "ThreadCallback"
    THEN \* self.thread reads self._thread; Thread.run() runs the target on
         \* the calling thread
         IF "_thread" \notin entry.attrs
         THEN [raised |-> "AttributeError", result |-> <<>>, ran |-> <<>>]
         ELSE [raised |-> "none", result |-> <<>>,
               ran |-> <<[func |-> entry.func, args |-> entry.args,
                          thread |-> CallerThread]>>]
    ELSE [raised |-> "AttributeError", result |-> <<>>, ran |-> <<>>]

RECURSIVE CallAll(_, _, _, _)
\* [call() for call in self.calls] from the k-th entry on
CallAll(k, list, results, ran) ==
    IF k > Len(list)
    THEN [raised |-> "none", results |-> results, ran |-> ran]
    ELSE LET r == CallEntry(list[k])
         IN  IF r.raised # "none"
             THEN [raised |-> r.raised, results |-> results, ran |-> ran \o r.ran]
             ELSE CallAll(k + 1, list, Append(results, r.result), ran \o r.ran)

\* the positional arguments of the i-th function: arguments[i], or () when
\* no arguments were given
ArgsOf(withArguments, i) == IF withArguments THEN <<i>> ELSE <<>>

RECURSIVE CreateCallbacks(_, _, _, _)
\* the loop of Callback.__init__ lines 223-234 from the i-th entry on
CreateCallbacks(i, funcs, withArguments, list) ==
    IF i > Len(funcs)
    THEN [raised |-> "none", calls |-> list]
    ELSE LET func == funcs[i].func
             args == ArgsOf(withArguments, i)
         IN  IF funcs[i].flag
             THEN CreateCallbacks(i + 1, funcs, withArguments,
                     Append(list, ThreadCallback(func, TRUE, <<>>,
                                                 PackedKwargs(args, <<>>))))
             ELSE IF IsCoroutineFunction(func)
             THEN \* AsyncCallback.__init__ reads the undefined name self_
                  [raised |-> "NameError", calls |-> list]
             ELSE CreateCallbacks(i + 1, funcs, withArguments,
                     Append(list, BaseCallback(func, args, <<>>)))

\* Callback.__init__(funcs, arguments)
CallbackInit(funcs, withArguments, list) ==
    IF \E i \in DOMAIN funcs : Subscript1(funcs[i]) \in {"IndexError", "TypeError"}
    THEN [raised |-> "ValueError", calls |-> list]
    ELSE CreateCallbacks(1, funcs, withArguments, list)

\* the record of a callback operation; made counts the constructor calls
\* and funcs is what a Callback constructor was given
CallbackOp(kind, target, raised, results, ran, made) ==
    [kind |-> kind, target |-> target, raised |-> raised, results |-> results,
     ran |-> ran, made |-> made, funcs |-> <<>>]

\* no callback constructed: the class attribute Callback.calls as written in
\* the class body
CallbackIdle ==
    /\ calls = <<>>
    /\ callbacks = <<>>
    /\ threadCallbacks = <<>>
    /\ callbackOp = CallbackOp("none", 0, "none", <<>>, <<>>, 0)

\* Callback(funcs, arguments); an exception leaves no Callback object
NewCallback(funcs, withArguments) ==
    /\ callbackOp.made < MaxCallbacks
    /\ LET r == CallbackInit(funcs, withArguments, calls)
       IN  /\ calls' = r.calls
           /\ callbacks' = IF r.raised = "none"
                           THEN Append(callbacks, [funcs |-> funcs,
                                                   withArguments |-> withArguments])
                           ELSE callbacks
           /\ callbackOp' = [CallbackOp("new", Len(callbacks'), r.raised, <<>>, <<>>,
                                           callbackOp.made + 1)
                                EXCEPT !.funcs = funcs]
    /\ UNCHANGED <<threadCallbacks, notCallbackVars>>

\* c(): Callback.__call__ on the c-th Callback object
CallCallback(c) ==
    /\ LET r == CallAll(1, calls, <<>>, <<>>)
       IN  callbackOp' = CallbackOp("call", c, r.raised, r.results, r.ran,
                                       callbackOp.made)
    /\ UNCHANGED <<calls, callbacks, threadCallbacks, notCallbackVars>>

\* ThreadCallback(func, daemon)
NewThreadCallback(func, daemon) ==
    /\ callbackOp.made < MaxCallbacks
    /\ threadCallbacks' = Append(threadCallbacks,
                                 [given |-> func,
                                  object |-> ThreadCallback(func, daemon, <<>>, <<>>)])
    /\ callbackOp' = CallbackOp("newThread", Len(threadCallbacks'), "none", <<>>, <<>>,
                                callbackOp.made + 1)
    /\ UNCHANGED <<calls, callbacks, notCallbackVars>>

\* t(): ThreadCallback.__call__ on the t-th ThreadCallback object
CallThreadCallback(t) ==
    /\ LET r == CallEntry(threadCallbacks[t].object)
       IN  callbackOp' = CallbackOp("callThread", t, r.raised, <<>>, r.ran,
                                       callbackOp.made)
    /\ UNCHANGED <<calls, callbacks, threadCallbacks, notCallbackVars>>

CallbackNext ==
    \/ \E funcs \in FuncLists, withArguments \in BOOLEAN : NewCallback(funcs, withArguments)
    \/ \E c \in DOMAIN callbacks : CallCallback(c)
    \/ \E func \in Funcs, daemon \in BOOLEAN : NewThreadCallback(func, daemon)
    \/ \E t \in DOMAIN threadCallbacks : CallThreadCallback(t)

(***************************************************************************)
(* commandLineApp.py                                                       *)
(***************************************************************************)
MaxReads == 3

\* the lines the user can type
Inputs == {"?CLOSE", "?close", "?HELP", "?help", "GO", "go", "other"}

\* str.lower() on the names in use
Lower(s) ==
    CASE s = "?CLOSE" -> "?close"
      [] s = "?HELP" -> "?help"
      [] s = "GO" -> "go"
      [] OTHER -> s

\* the default closeName and helpName
DefaultCloseName == "?CLOSE"

DefaultHelpName == "?HELP"

\* what calling a registered command can do: return, or raise
CommandOutcomes == {"none", "KeyError", "AttributeError"}

\* the names a command table registers; no two of them share a lower case
CommandNames == {"GO", "?close", "?help"}

CommandTables == UNION {[names -> CommandOutcomes] : names \in SUBSET CommandNames}

\* {key.lower() : value for key, value in commands.items()}
LowerKeys(commands) ==
    [name \in {Lower(key) : key \in DOMAIN commands} |->
        commands[CHOOSE key \in DOMAIN commands : Lower(key) = name]]

\* CommandLineApp.__init__ up to the startNow test
CommandLineApp(commands, caseSensitive) ==
    [constructed |-> TRUE,
     commands |-> IF caseSensitive THEN commands ELSE LowerKeys(commands),
     closeName |-> IF caseSensitive THEN DefaultCloseName ELSE Lower(DefaultCloseName),
     helpName |-> IF caseSensitive THEN DefaultHelpName ELSE Lower(DefaultHelpName),
     caseSensitive |-> caseSensitive,
     running |-> FALSE]

\* one pass of the loop of run() on the line that was read, without the
\* lower-casing of the answer
ListenRaw(self, line) ==
    LET answer == line
        called == IF answer \in DOMAIN self.commands
                  THEN self.commands[answer] ELSE "KeyError"
    IN  IF called = "none" THEN [did |-> "command", raised |-> "none", running |-> TRUE]
        ELSE IF called # "KeyError"
        THEN [did |-> "command", raised |-> called, running |-> TRUE]
        ELSE IF answer = self.helpName
        THEN [did |-> "help", raised |-> "none", running |-> TRUE]
        ELSE IF answer = self.closeName
        THEN [did |-> "die", raised |-> "none", running |-> FALSE]
        ELSE [did |-> "pass", raised |-> "none", running |-> TRUE]

\* one pass of the loop of run() on the line that was read
Listen(self, line) ==
    LET answer == IF self.caseSensitive THEN line ELSE Lower(line)
        called == IF answer \in DOMAIN self.commands
                  THEN self.commands[answer] ELSE "KeyError"
    IN  IF called = "none" THEN [did |-> "command", raised |-> "none", running |-> TRUE]
        ELSE IF called # "KeyError"
        THEN [did |-> "command", raised |-> called, running |-> TRUE]
        ELSE IF answer = self.helpName
        THEN [did |-> "help", raised |-> "none", running |-> TRUE]
        ELSE IF answer = self.closeName
        THEN [did |-> "die", raised |-> "none", running |-> FALSE]
        ELSE [did |-> "pass", raised |-> "none", running |-> TRUE]

AppOp(kind, line, did, raised, reads) ==
    [kind |-> kind, line |-> line, did |-> did, raised |-> raised, reads |-> reads]

\* no CommandLineApp constructed
AppIdle ==
    /\ app = [constructed |-> FALSE]
    /\ appPc = "idle"
    /\ appOp = AppOp("none", "", "none", "none", 0)

\* CommandLineApp(commands, caseSensitive = ..., startNow = ...)
NewCommandLineApp(commands, caseSensitive, startNow) ==
    /\ ~app.constructed
    /\ app' = [CommandLineApp(commands, caseSensitive) EXCEPT !.running = startNow]
    /\ appPc' = IF startNow THEN "loop" ELSE "idle"
    /\ appOp' = AppOp("new", "", "none", "none", appOp.reads)
    /\ UNCHANGED notAppVars

\* run() up to its first input()
Run ==
    /\ app.constructed
    /\ appPc # "loop"
    /\ appOp.reads < MaxReads
    /\ app' = [app EXCEPT !.running = TRUE]
    /\ appPc' = "loop"
    /\ appOp' = AppOp("run", "", "none", "none", appOp.reads)
    /\ UNCHANGED notAppVars

\* input() returns line: the body of the loop, the test of self.running
\* and, once it is false, the closing message
ReadInput(line) ==
    /\ appPc = "loop"
    /\ appOp.reads < MaxReads
    /\ LET r == Listen(app, line)
       IN  /\ app' = [app EXCEPT !.running = r.running]
           /\ appPc' = IF r.raised # "none" THEN "aborted"
                       ELSE IF r.running THEN "loop" ELSE "done"
           /\ appOp' = AppOp("read", line, r.did, r.raised, appOp.reads + 1)
    /\ UNCHANGED notAppVars

AppNext ==
    \/ \E commands \in CommandTables, caseSensitive \in BOOLEAN, startNow \in BOOLEAN :
          NewCommandLineApp(commands, caseSensitive, startNow)
    \/ Run
    \/ \E line \in Inputs : ReadInput(line)

(***************************************************************************)
(* decorators.py and DBWriter.createConnection                             *)
(***************************************************************************)
MaxRetries == 3

\* retries when the decorator is given none
DefaultRetries == 5

\* the message DBWriter.createConnection is decorated with
ConnectionLogMsg == "Failed to create connection."

LogMsgs == {None, "", ConnectionLogMsg}

\* what the wrapped function does on its k-th call
Behaviours(n) == [1..n -> {"raises", "returns"}]

\* what the k-th call returns
ResultOf(k) == "result" \o NatToStr(k)

RECURSIVE TryFrom(_, _, _, _, _)
\* the for loop of inner from try_ on; the loop variable runs from 0
TryFrom(try_, retries, behaviour, logMsg, log) ==
    IF try_ >= retries
    THEN [raised |-> "none", result |-> None, called |-> IF retries > 0 THEN retries ELSE 0,
          log |-> Append(log, "Failed to execute")]
    ELSE IF behaviour[try_ + 1] = "returns"
    THEN [raised |-> "none", result |-> ResultOf(try_ + 1), called |-> try_ + 1,
          log |-> log]
    ELSE TryFrom(try_ + 1, retries, behaviour, logMsg, Append(log, logMsg))

\* inner(*args, **kwargs) of retry(logMsg, retries); exc_info is a name the
\* module neither defines nor imports
Inner(logMsg, retries, behaviour) ==
    IF ~Truthy(logMsg)
    THEN [raised |-> "NameError", result |-> None, called |-> 0, log |-> <<>>]
    ELSE TryFrom(0, retries, behaviour, logMsg, <<>>)

RetryOp(kind, logMsg, retries, behaviour, r) ==
    [kind |-> kind, logMsg |-> logMsg, retries |-> retries, behaviour |-> behaviour,
     raised |-> r.raised, result |-> r.result, called |-> r.called, log |-> r.log]

\* no DBWriter constructed, no wrapped function called
RetryIdle ==
    /\ connection = None
    /\ retryOp = RetryOp("none", None, 0, <<>>,
                         [raised |-> "none", result |-> None, called |-> 0, log |-> <<>>])

\* a call of a function decorated with retry(logMsg, retries)
CallRetried(logMsg, retries, behaviour) ==
    /\ retryOp' = RetryOp("call", logMsg, retries, behaviour,
                          Inner(logMsg, retries, behaviour))
    /\ UNCHANGED <<connection, notRetryVars>>

\* DBWriter.createConnection(): sql.connect raises or returns on each attempt
CreateConnection(behaviour) ==
    LET r == Inner(ConnectionLogMsg, DefaultRetries, behaviour)
    IN  /\ retryOp' = RetryOp("createConnection", ConnectionLogMsg, DefaultRetries,
                              behaviour, [r EXCEPT !.result = None])
        /\ connection' = IF r.result # None THEN r.result ELSE connection
        /\ UNCHANGED notRetryVars

RetryNext ==
    \/ \E logMsg \in LogMsgs, retries \in 0..MaxRetries :
          \E behaviour \in Behaviours(retries) : CallRetried(logMsg, retries, behaviour)
    \/ \E behaviour \in Behaviours(DefaultRetries) : CreateConnection(behaviour)

(***************************************************************************)
(* searching.py                                                            *)
(***************************************************************************)
MaxLen == 3

MaxKey == 3

\* the return_type arguments callers pass
ReturnTypes == {"found", "index", "item", "position"}

\* key = None (compare the elements themselves) or a callable that reads the
\* element's k
Keys == {None, "k"}

\* the ascending sequences of keys, up to MaxLen long
SortedKeys ==
    {ks \in UNION {[1..n -> 1..MaxKey] : n \in 0..MaxLen} :
        \A i, j \in DOMAIN ks : i <= j => ks[i] <= ks[j]}

\* the list searched: numbers, or elements that hold their key as k
ToSearch(ks, key) ==
    IF key = None THEN ks ELSE [i \in DOMAIN ks |-> [id |-> i, k |-> ks[i]]]

\* key(ele)
KeyOf(key, ele) == IF key = None THEN ele ELSE ele.k

\* the values binarySearch returns
ReturnNone == [is |-> "None"]

ReturnBool(b) == [is |-> "bool", value |-> b]

ReturnIndex(i) == [is |-> "index", value |-> i]

ReturnItem(ele) == [is |-> "item", value |-> ele]

\* the arguments of a call, before its first statement
SearchCall(target, ks, return_type, key) ==
    [pc |-> "verify", target |-> target, to_search |-> ToSearch(ks, key),
     return_type |-> return_type, key |-> key, lower |-> 0, upper |-> 0,
     found |-> FALSE, mid |-> 0, raised |-> "none", result |-> ReturnNone,
     passes |-> 0]

\* the body of the while loop with the comparisons exchanged
LoopBodySwapped(s) ==
    LET mid == s.lower + (s.upper - s.lower) \div 2
        current == KeyOf(s.key, s.to_search[mid + 1])
    IN  IF current > s.target
        THEN [s EXCEPT !.mid = mid, !.lower = mid + 1]
        ELSE IF current < s.target
        THEN [s EXCEPT !.mid = mid, !.upper = mid - 1]
        ELSE [s EXCEPT !.mid = mid, !.found = TRUE]

\* the body of the while loop; list indices count from 0 in the source and
\* from 1 here
LoopBody(s) ==
    LET mid == s.lower + (s.upper - s.lower) \div 2
        current == KeyOf(s.key, s.to_search[mid + 1])
    IN  IF current < s.target
        THEN [s EXCEPT !.mid = mid, !.lower = mid + 1]
        ELSE IF current > s.target
        THEN [s EXCEPT !.mid = mid, !.upper = mid - 1]
        ELSE [s EXCEPT !.mid = mid, !.found = TRUE]

\* the statements after the loop
SearchReturn(s) ==
    IF s.return_type = "found" THEN ReturnBool(s.found)
    ELSE IF s.found
    THEN IF s.return_type = "index" THEN ReturnIndex(s.mid)
         ELSE IF s.return_type = "item" THEN ReturnItem(s.to_search[s.mid + 1])
         ELSE ReturnNone
    ELSE ReturnNone

\* a call of binarySearch on a list sorted by key
SearchInit ==
    \E target \in 0..(MaxKey + 1), ks \in SortedKeys, return_type \in ReturnTypes,
       key \in Keys :
        search = SearchCall(target, ks, return_type, key)

\* the check of return_type, the default key and the initial bounds
Verify ==
    /\ search.pc = "verify"
    /\ search' = IF search.return_type \notin {"found", "index", "item"}
                 THEN [search EXCEPT !.pc = "done", !.raised = "ValueError"]
                 ELSE [search EXCEPT !.pc = "loop", !.lower = 0,
                                     !.upper = Len(search.to_search) - 1]
    /\ UNCHANGED notSearchVars

\* one pass of the while loop
Iterate ==
    /\ search.pc = "loop"
    /\ search.lower <= search.upper /\ ~search.found
    /\ search' = [LoopBody(search) EXCEPT !.passes = search.passes + 1]
    /\ UNCHANGED notSearchVars

\* the loop test fails and the function returns
Return ==
    /\ search.pc = "loop"
    /\ ~(search.lower <= search.upper /\ ~search.found)
    /\ search' = [search EXCEPT !.pc = "done", !.result = SearchReturn(search)]
    /\ UNCHANGED notSearchVars

SearchNext == Verify \/ Iterate \/ Return

\* no search in progress
SearchIdle == search = [pc |-> "idle"]

\* no FormPage in use: a page without fields
FormIdle ==
    /\ fields = <<>>
    /\ widgetValues = [i \in 1..MaxFields |-> ""]
    /\ submissionResults = EmptyResults
    /\ formOp = [kind |-> "none", raised |-> "none"]

Idle == CallbackIdle /\ AppIdle /\ RetryIdle /\ SearchIdle

Init == FactoryInit /\ PopupInit /\ FormIdle /\ ToggleIdle /\ PageIdle /\ Idle

InitForm ==
    FactoryInit /\ PopupInit /\ FormInit /\ ToggleIdle /\ PageIdle /\ Idle

InitSettings ==
    FactoryInit /\ PopupInit /\ FormIdle /\ ToggleIdle /\ PageInit /\ Idle

InitNavigation ==
    /\ FactoryInit /\ PopupInit /\ FormIdle /\ ToggleIdle /\ PageInit /\ Idle
    /\ settingsFile = PickledFile([volume |-> "3", theme |-> StoredTheme("dark")])

SpecFactory == Init /\ [][FactoryNext]_vars

SpecPopup == Init /\ [][PopupNext]_vars

SpecForm == InitForm /\ [][FormNext]_vars

SpecToggle == Init /\ [][ToggleNext]_vars

SpecSettings == InitSettings /\ [][SettingsNext]_vars

SpecNavigation == InitNavigation /\ [][NavigationNext]_vars

SpecCallback == Init /\ [][CallbackNext]_vars

SpecApp == Init /\ [][AppNext]_vars

SpecRetry == Init /\ [][RetryNext]_vars

SpecAttach == InitForm /\ [][AttachNext]_vars

InitSearch ==
    /\ FactoryInit /\ PopupInit /\ FormIdle /\ ToggleIdle /\ PageIdle
    /\ CallbackIdle /\ AppIdle /\ RetryIdle /\ SearchInit

\* a call that has started runs on: nothing it waits for
SpecSearch == InitSearch /\ [][SearchNext]_vars /\ WF_vars(SearchNext)

(***************************************************************************)
(* Properties of the WidgetFactory                                         *)
(***************************************************************************)
\* the mapping of overrides and stored defaults, before any key is removed:
\* a non-None override wins, otherwise the stored default if there is one
Overridden(kw) == {k \in DOMAIN kw : kw[k] # None}

MergedValue(kw, d, k) == IF k \in Overridden(kw) THEN kw[k] ELSE d[k]

IsResolution(r, kw, d, removed) ==
    /\ DOMAIN r = (Overridden(kw) \cup DOMAIN d) \ removed
    /\ \A k \in DOMAIN r : r[k] = MergedValue(kw, d, k)

\* C1 as stated: attribute resolution returns the merge of overrides and
\* defaults with exactly the keys of the ignore set removed.
C1_ResolutionRemovesOnlyIgnored ==
    call.op # "none" =>
        IsResolution(call.widgetParams, call.kwargs, call.defaults, call.ignore)

\* C1 (amended): attribute resolution returns the merge of overrides and
\* defaults (non-None override wins; None or absent override falls back to the
\* stored default; a None override without a default is absent) with the keys
\* of the ignore set and the six placement keys anchor, sticky, relative,
\* labelText, relheight, relwidth removed.
C1_ResolutionRemovesIgnoredAndPlacement ==
    call.op # "none" =>
        IsResolution(call.widgetParams, call.kwargs, call.defaults,
                     call.ignore \cup IncompatibleParams)

\* a resolution with a non-None override, a None override that has a default,
\* a None override of an unknown key, and an ignored key
C1_Witness ==
    /\ call.op # "none"
    /\ call.kwargs = [fg |-> None, anchor |-> "center", zzz |-> None]
    /\ call.ignore = {"anchor"}
    /\ call.widgetParams["fg"] = call.defaults["fg"]
    /\ "zzz" \notin DOMAIN call.widgetParams
    /\ "bg" \in DOMAIN call.widgetParams

\* the keys a widget really receives: tkinter drops options whose value is None
Applied(params) == {k \in DOMAIN params : params[k] # None}

\* C2: no key of the ignore set is passed to the built widget, to its label or
\* to their placement.
C2_NoIgnoredKeyApplied ==
    call.op # "none" =>
        call.ignore \cap (Applied(call.widgetParams) \cup Applied(call.labelParams)
                            \cup Applied(call.placeParams)) = {}

\* C3: the stored defaults of every factory are the class defaults overridden
\* only by what was given to or set on that factory.
C3_DefaultsPerInstance ==
    \A f \in DOMAIN factories : DefaultAttrsOf(f) = factories[f].own

(***************************************************************************)
(* Properties of the Popup registry                                        *)
(***************************************************************************)
InRegistry(p) == \E i \in DOMAIN instances : instances[i].popup = p

RECURSIVE Chain(_)
\* a popup and the popups of its parent chain
Chain(p) == IF popups[p].parent = 0 THEN {p} ELSE {p} \cup Chain(popups[p].parent)

RECURSIVE CloseSteps(_)
\* the steps close() is to take on p: unregister p, close the parent, destroy p
CloseSteps(p) ==
    <<<<"unregister", p>>>>
    \o (IF popups[p].parent = 0 THEN <<>> ELSE CloseSteps(popups[p].parent))
    \o <<<<"destroy", p>>>>

\* C4: a Popup constructed while two popups are tracked removes exactly the
\* two oldest registry entries before it registers itself, and destroys no
\* window.
C4_EvictsTwoOldest ==
    [][(popupOp'.kind = "new" /\ Len(instances) = 2) =>
          /\ popupOp'.raised = "none"
          /\ instances' = <<[name |-> popups'[Len(popups')].name, popup |-> Len(popups')]>>
          /\ \A i \in DOMAIN popups : popups'[i].open = popups[i].open]_vars

\* C5: the name of a newly constructed popup differs from the name of every
\* popup in the registry, so registering it overwrites no other popup's entry.
C5_NamesUnique == popupOp.overwritten = {}

\* C6: the registry never holds more than 2 entries.
C6_RegistryCapped == Len(instances) <= CullAt

\* C7: close() on P unregisters P, then closes the parent chain, then destroys
\* P's window, in this order; afterwards neither P nor a popup of its parent
\* chain is in the registry.
C7_CloseOrder ==
    popupOp.kind = "close" =>
        /\ SelectSeq(popupOp.log, LAMBDA e : e[1] \in {"unregister", "destroy"})
              = CloseSteps(popupOp.target)
        /\ \A q \in Chain(popupOp.target) : ~InRegistry(q) /\ ~popups[q].open

(***************************************************************************)
(* Properties of FormPage submission                                       *)
(***************************************************************************)
\* whether the predicate of field i holds of its current value; a field
\* constructed without a predicate always passes
Passes(i) ==
    \/ fields[i].validation.type = "defaultCheck"
    \/ ApplyCheck(fields[i].validation, widgetValues[fields[i].field]).result

NamedValue(i) == <<fields[i].name, widgetValues[fields[i].field]>>

RECURSIVE PassedFrom(_)
\* the (name, value) pairs of the passing fields from field i on, in field order
PassedFrom(i) ==
    IF i > Len(fields) THEN <<>>
    ELSE (IF Passes(i) THEN <<NamedValue(i)>> ELSE <<>>) \o PassedFrom(i + 1)

RECURSIVE FailedFrom(_)
\* the failing fields from field i on, in field order
FailedFrom(i) ==
    IF i > Len(fields) THEN <<>>
    ELSE (IF Passes(i) THEN <<>> ELSE <<i>>) \o FailedFrom(i + 1)

\* C8: submit raises nothing and puts every field in exactly one output: the
\* passing fields as (name, value) in results, the failing fields in failed,
\* both in field order.
C8_SubmitSortsEveryField ==
    formOp.kind = "submit" =>
        /\ formOp.raised = "none"
        /\ submissionResults.results = PassedFrom(1)
        /\ submissionResults.failed = FailedFrom(1)

\* the result of the last call alone
LastCallResult ==
    IF formOp.kind = "submit"
    THEN [results |-> PassedFrom(1), failed |-> FailedFrom(1)]
    ELSE [results |-> [i \in DOMAIN fields |-> NamedValue(i)], failed |-> <<>>]

\* C9: after a submit or basicSubmit call, submissionResults is the result of
\* that call alone.
C9_LastWriteWins ==
    formOp.kind \in {"submit", "basicSubmit"} => submissionResults = LastCallResult

\* C10: basicSubmit raises nothing, leaves failed empty and results with one
\* (name, value) pair per field, in field order.
C10_BasicSubmitCollectsAll ==
    formOp.kind = "basicSubmit" =>
        /\ formOp.raised = "none"
        /\ submissionResults.failed = <<>>
        /\ Len(submissionResults.results) = Len(fields)
        /\ \A i \in DOMAIN fields : submissionResults.results[i] = NamedValue(i)

\* C11: retrieving a field's value raises nothing, returns the widget's value
\* and leaves validationPassed equal to the predicate applied to that value;
\* a second retrieval right after it returns the same value and the same
\* validationPassed.
C11_GetIdempotent ==
    [][formOp'.kind = "get" =>
          LET t == formOp'.target
          IN  /\ formOp'.raised = "none"
              /\ formOp'.value = widgetValues[fields[t].field]
              /\ fields'[t].validationPassed = Passes(t)
              /\ (formOp.kind = "get" /\ formOp.target = t) =>
                    /\ formOp'.value = formOp.value
                    /\ fields'[t].validationPassed = fields[t].validationPassed]_vars

\* C12: massAddValidation raises nothing when a check or a non-empty list of
\* checks is given; with a single check every given field's predicate becomes
\* that check, with a parallel list the k-th given field gets the k-th check;
\* the fields not given keep their predicate.
C12_MassAddValidation ==
    [][(formOp'.kind = "massAddValidation" /\ formOp'.raised # "AssertionError") =>
          LET targets == formOp'.targets
              given == {targets[k] : k \in DOMAIN targets}
          IN  /\ formOp'.raised = "none"
              /\ \A k \in DOMAIN targets :
                    fields'[targets[k]].validation =
                        IF formOp'.check # NoCheck THEN formOp'.check
                        ELSE formOp'.checks.list[k]
              /\ \A i \in DOMAIN fields \ given :
                    fields'[i].validation = fields[i].validation]_vars

(***************************************************************************)
(* Properties of the ToggleButton                                          *)
(***************************************************************************)
\* where a popout handed over with placement info is to reappear: by its
\* relative coordinates when one of them is nonzero while both absolute
\* coordinates are zero, by its absolute coordinates otherwise
Reapplied(info) ==
    IF (info.relx # "0" \/ info.rely # "0") /\ info.x = "0" /\ info.y = "0"
    THEN [placed |-> TRUE, relx |-> info.relx, rely |-> info.rely, x |-> "0", y |-> "0",
          anchor |-> info.anchor]
    ELSE [placed |-> TRUE, relx |-> "0", rely |-> "0", x |-> info.x, y |-> info.y,
          anchor |-> info.anchor]

Odd(n) == n % 2 = 1

FactoryKeys(self) == {self.factories[i] : i \in DOMAIN self.factories}

\* C15: the current theme key of a page is always a key of its factories.
C15_ThemeKeyIsFactory ==
    page.constructed => page.themeKey \in FactoryKeys(page)

\* C16: after changeTheme(k) for a theme k of the page, the settings file
\* loads as a record whose theme.name is k and whose other keys are what they
\* were; the background and the movement buttons are not redrawn.
C16_ThemeSwitchPersists ==
    [][(pageOp'.kind = "changeTheme" /\ pageOp'.arg \in FactoryKeys(page)) =>
          LET before == Load(settingsFile)
              after == Load(settingsFile')
          IN  /\ after.raised = "none"
              /\ "theme" \in DOMAIN after.value
              /\ after.value["theme"]["name"] = pageOp'.arg
              /\ DOMAIN after.value = DOMAIN before.value \cup {"theme"}
              /\ \A k \in DOMAIN before.value \ {"theme"} :
                    after.value[k] = before.value[k]
              /\ page'.background = page.background
              /\ frames' = frames
              /\ movementButtons' = movementButtons]_vars

\* a switch from the stored theme dark to light, with another key in the file
C16_Witness ==
    /\ pageOp.kind = "changeTheme"
    /\ pageOp.arg = "light"
    /\ pageOp.raised = "none"
    /\ Load(settingsFile).value["theme"]["name"] = "light"
    /\ "volume" \in DOMAIN Load(settingsFile).value

\* C17: movePage to a target whose constructor raises shows an error popup,
\* raises nothing, and leaves the visible page and its background as they
\* were.
C17_FailedMoveKeepsPage ==
    [][(pageOp'.kind = "movePage" /\ pageOp'.arg = "broken") =>
          /\ pageOp'.raised = "none"
          /\ Len(popups') = Len(popups) + 1
          /\ page'.visible = page.visible
          /\ page'.background = page.background
          /\ frames'[page.background]]_vars

\* C18: _validateSettings raises nothing on a missing, empty or corrupt file
\* and the file then loads as a record with a 'theme' key; the keys of a
\* valid record keep their values.
C18_SettingsRepaired ==
    [][(pageOp'.kind = "new" /\ pageOp'.validated # "notCalled") =>
          LET before == Load(settingsFile)
              after == Load(settingsFile')
          IN  /\ pageOp'.validated = "none"
              /\ settingsFile'.exists
              /\ after.raised = "none"
              /\ "theme" \in DOMAIN after.value
              /\ (settingsFile.exists /\ before.raised = "none") =>
                    \A k \in DOMAIN before.value :
                        k \in DOMAIN after.value /\ after.value[k] = before.value[k]]_vars

\* C19: the movement buttons of a page are placed from (0, 0): each next
\* button is one horizontal spacing to the right of the previous one, unless
\* that reaches 1.0, in which case it goes to x = 0 one vertical spacing
\* lower; no button is ever placed at x >= 1.0.
C19_ButtonsWrap ==
    /\ \A i \in DOMAIN movementButtons : movementButtons[i].relx < Scale
    /\ (pageOp.kind = "new" /\ page.constructed) =>
          LET b == movementButtons
              h == page.spacing[1]
              v == page.spacing[2]
          IN  /\ Len(b) = Len(page.children)
              /\ Len(b) > 0 => (b[1].relx = 0 /\ b[1].rely = 0)
              /\ \A i \in 2..Len(b) :
                    IF b[i - 1].relx + h >= Scale
                    THEN b[i].relx = 0 /\ b[i].rely = b[i - 1].rely + v
                    ELSE b[i].relx = b[i - 1].relx + h /\ b[i].rely = b[i - 1].rely

\* six children with the default spacing: the sixth button starts the second
\* row
C19_Witness ==
    /\ pageOp.kind = "new"
    /\ page.constructed
    /\ page.spacing = DefaultSpacing
    /\ Len(movementButtons) = 6
    /\ movementButtons[5].relx = 80
    /\ movementButtons[6].relx = 0
    /\ movementButtons[6].rely = 10

\* C20: WindowChild(parent, name) raises nothing and appends the child to the
\* parent's children once, creating no window; removeChild(target) of a child
\* raises nothing and removes that child, the others keeping their order.
C20_ChildrenRegistered ==
    [][/\ pageOp'.kind = "newChild" =>
              /\ pageOp'.raised = "none"
              /\ page'.children = Append(page.children, pageOp'.arg)
              /\ frames' = frames
       /\ (pageOp'.kind = "removeChild"
              /\ \E i \in DOMAIN page.children : page.children[i] = pageOp'.arg) =>
              /\ pageOp'.raised = "none"
              /\ page'.children = SelectSeq(page.children, LAMBDA c : c # pageOp'.arg)]_vars

(***************************************************************************)
(* Properties of the callbacks                                             *)
(***************************************************************************)
\* C21: calling a ThreadCallback raises nothing and runs the function it was
\* given once, on a thread that is not the caller's.
C21_ThreadPerCall ==
    callbackOp.kind = "callThread" =>
        /\ callbackOp.raised = "none"
        /\ Len(callbackOp.ran) = 1
        /\ callbackOp.ran[1].func = threadCallbacks[callbackOp.target].given
        /\ callbackOp.ran[1].thread # CallerThread

\* the entries of a funcs collection that carry no thread flag
Malformed(funcs) == {i \in DOMAIN funcs : funcs[i].shape # "pair"}

\* the class of callback the spec assigns to a well-formed entry
ExpectedClass(entry) ==
    IF entry.flag THEN "ThreadCallback"
    ELSE IF IsCoroutineFunction(entry.func) THEN "AsyncCallback"
    ELSE "BaseCallback"

\* C25: constructing a Callback from funcs with an entry that has no thread
\* flag raises ValueError and leaves the calls list as it was, wherever the
\* entry stands; from well-formed funcs it raises nothing and adds one
\* callback per entry, a thread callback for a true flag, else an async
\* callback for a coroutine function, else a plain callback.
C25_FlagsChecked ==
    [][callbackOp'.kind = "new" /\ callbackOp'.made = callbackOp.made + 1 =>
        LET funcs == callbackOp'.funcs
        IN  IF Malformed(funcs) # {}
            THEN callbackOp'.raised = "ValueError" /\ calls' = calls
            ELSE /\ callbackOp'.raised = "none"
                 /\ Len(calls') = Len(calls) + Len(funcs)
                 /\ \A i \in DOMAIN funcs :
                        calls'[Len(calls) + i].class = ExpectedClass(funcs[i])]_vars

\* C30: calling a Callback object raises nothing, runs each function its
\* constructor was given exactly once, in order, with its paired arguments,
\* runs nothing else, and returns one result per function in that order.
C30_OwnFunctionsOnly ==
    callbackOp.kind = "call" =>
        LET own == callbacks[callbackOp.target]
            expected == [i \in DOMAIN own.funcs |->
                            [func |-> own.funcs[i].func,
                             args |-> ArgsOf(own.withArguments, i)]]
        IN  /\ callbackOp.raised = "none"
            /\ [i \in DOMAIN callbackOp.ran |->
                   [func |-> callbackOp.ran[i].func,
                    args |-> callbackOp.ran[i].args]] = expected
            /\ callbackOp.results =
                   [i \in DOMAIN expected |-> <<expected[i].func, expected[i].args>>]

(***************************************************************************)
(* Properties of the command listener                                      *)
(***************************************************************************)
\* the line equals name, compared as the listener was told to compare
SameName(line, name) ==
    IF app.caseSensitive THEN line = name ELSE Lower(line) = Lower(name)

\* the line names a command of the table the listener holds
Registered(line) ==
    (IF app.caseSensitive THEN line ELSE Lower(line)) \in DOMAIN app.commands

\* what the listener does with a line that is the close name, the help name,
\* or neither and no registered command
CloseHelpPass ==
    /\ SameName(appOp'.line, DefaultCloseName) =>
          appOp'.did = "die" /\ ~app'.running /\ appPc' = "done"
    /\ SameName(appOp'.line, DefaultHelpName) =>
          appOp'.did = "help" /\ app'.running /\ appPc' = "loop"
    /\ (/\ ~SameName(appOp'.line, DefaultCloseName)
        /\ ~SameName(appOp'.line, DefaultHelpName)
        /\ ~Registered(appOp'.line)) =>
          appOp'.did = "pass" /\ app'.running /\ appPc' = "loop"

\* C22 as stated: for every command table, a line equal to the close name
\* stops the listener and ends the loop, a line equal to the help name runs
\* help and the listener keeps running, and any other line that is no
\* registered command is ignored; the listener reads nothing once it is done.
C22_CloseStops ==
    [][/\ appOp'.kind = "read" => CloseHelpPass
       /\ appPc = "done" => appOp'.reads = appOp.reads]_vars

\* C22 amended: the same for every command table that registers neither the
\* close name nor the help name.
C22_CloseStopsUnshadowed ==
    [][/\ (/\ appOp'.kind = "read"
           /\ app.closeName \notin DOMAIN app.commands
           /\ app.helpName \notin DOMAIN app.commands) => CloseHelpPass
       /\ appPc = "done" => appOp'.reads = appOp.reads]_vars

\* a listener without case sensitivity has read the close name in a case
\* other than the stored one and is done
C22_Witness ==
    /\ appPc = "done"
    /\ appOp.kind = "read"
    /\ appOp.did = "die"
    /\ ~app.caseSensitive
    /\ appOp.line # app.closeName
    /\ DOMAIN app.commands # {}
    /\ app.closeName \notin DOMAIN app.commands

(***************************************************************************)
(* Properties of the retry decorator                                       *)
(***************************************************************************)
\* the calls of the wrapped function that return, among the first n
Successes(behaviour, n) == {k \in 1..n : behaviour[k] = "returns"}

\* the least element of a non-empty set of numbers
Least(S) == CHOOSE k \in S : \A j \in S : k <= j

\* C23: whatever logMsg is, a function wrapped with retries = n is called at
\* most n times and the wrapper raises nothing; it stops at the first call
\* that returns, hands back that call's result and has logged each failed
\* call before it; when all n calls raise it has logged each of them and the
\* exhaustion, and returns None.
C23_RetryBounded ==
    retryOp.kind = "call" =>
        LET n == retryOp.retries
            ok == Successes(retryOp.behaviour, n)
        IN  /\ retryOp.raised = "none"
            /\ retryOp.called <= n
            /\ IF ok # {}
               THEN /\ retryOp.called = Least(ok)
                    /\ retryOp.result = ResultOf(Least(ok))
                    /\ Len(retryOp.log) = Least(ok) - 1
               ELSE /\ retryOp.called = n
                    /\ retryOp.result = None
                    /\ Len(retryOp.log) = n + 1

(***************************************************************************)
(* Properties of attachValidation                                          *)
(***************************************************************************)
\* CHECKTYPES[checkType](value, *args) for the checks callers attach
CheckTypeCall(checkType, value, args) ==
    CASE checkType = "lengthCheck" -> LengthCheck(value, args.min, args.max)
      [] checkType = "withinCheck" -> WithinCheck(value, args.within)
      [] checkType = "withoutCheck" -> WithoutCheck(value, args.within)
      [] checkType = "defaultCheck" -> DefaultCheck(value)

\* C24: attachValidation without customCheck raises ValueError on a
\* checkType that CHECKTYPES does not hold and leaves the field's predicate
\* as it was; on a known checkType it raises nothing and the field's
\* predicate answers every value as that check does with the given further
\* arguments.
C24_AttachValidation ==
    [][formOp'.kind = "attachValidation" =>
        LET i == formOp'.target
        IN  IF formOp'.checkType \notin CheckTypes
            THEN /\ formOp'.raised = "ValueError"
                 /\ fields'[i].validation = fields[i].validation
            ELSE /\ formOp'.raised = "none"
                 /\ \A v \in Values :
                        ApplyCheck(fields'[i].validation, v) =
                            CheckTypeCall(formOp'.checkType, v, formOp'.args)]_vars

\* an unknown checkType was refused on a field whose predicate an earlier
\* call had attached with further arguments
C24_Witness ==
    /\ formOp.kind = "attachValidation"
    /\ formOp.raised = "ValueError"
    /\ formOp.checkType = "customCheck"
    /\ fields[formOp.target].validation.type = "withoutCheck"
    /\ fields[formOp.target].validation.within # {}

(***************************************************************************)
(* Properties of binarySearch                                              *)
(***************************************************************************)
\* the indices, counted from 0, of the elements whose key is the target
Matches ==
    {i \in 0..(Len(search.to_search) - 1) :
        KeyOf(search.key, search.to_search[i + 1]) = search.target}

\* what a finished call has answered agrees with linear membership
AgreesWithLinear ==
    IF search.return_type \notin {"found", "index", "item"}
    THEN search.raised = "ValueError" /\ search.passes = 0
    ELSE /\ search.raised = "none"
         /\ IF search.return_type = "found"
            THEN search.result = ReturnBool(Matches # {})
            ELSE IF Matches = {} THEN search.result = ReturnNone
            ELSE IF search.return_type = "index"
            THEN /\ search.result.is = "index"
                 /\ search.result.value \in Matches
            ELSE /\ search.result.is = "item"
                 /\ \E i \in Matches : search.result.value = search.to_search[i + 1]

\* C26: every call of binarySearch on a list sorted ascending by key ends,
\* and when it has ended its answer agrees with linear membership: 'found'
\* is True exactly when some key equals the target, 'index' is the index of
\* an element whose key is the target or None, 'item' is such an element or
\* None, and any other return_type has raised ValueError before any pass of
\* the search loop.
C26_BinarySearch ==
    /\ [](search.pc = "done" => AgreesWithLinear)
    /\ <>(search.pc = "done")

\* a search by key over a list of full length has ended after more than one
\* pass and returned an item
C26_Witness ==
    /\ search.pc = "done"
    /\ search.return_type = "item"
    /\ search.key = "k"
    /\ Len(search.to_search) = MaxLen
    /\ search.passes > 1
    /\ search.result.is = "item"
    /\ Matches # {}

(***************************************************************************)
(* Properties of the popup counter                                         *)
(***************************************************************************)
\* C27: in every state the population counter equals the number of entries
\* of Popup.instances and is not negative.
C27_PopulationMatchesRegistry ==
    /\ population = Len(instances)
    /\ population >= 0

\* C28: whenever the population counter is 2 or more the registry holds at
\* least 2 entries, and no construction of a popup ends with IndexError.
C28_EvictionNeverFails ==
    /\ population >= CullAt => Len(instances) >= CullAt
    /\ popupOp.raised # "IndexError"

(***************************************************************************)
(* Properties of the movement buttons                                      *)
(***************************************************************************)
\* C29: once a page is constructed, the tracked movement buttons are exactly
\* one button per child, in the children's order, each on the page's present
\* background.
C29_OneButtonPerChild ==
    page.constructed =>
        /\ Len(movementButtons) = Len(page.children)
        /\ \A i \in DOMAIN movementButtons :
              /\ movementButtons[i].text = page.children[i]
              /\ movementButtons[i].master = "background" \o NatToStr(page.background)
              /\ frames[page.background]

====
